---- MODULE Spec2Model ----
(***************************************************************************)
(* Claims Data Exporter: the resumable export pipeline.                    *)
(*                                                                         *)
(* The content script (driver loop, CSV reader), the popup (crash          *)
(* recovery, start over, download) and chrome.storage.local, which both    *)
(* share.  Texts are sequences of one-character strings.                   *)
(*                                                                         *)
(* Storage model: a chrome.storage.local call takes effect when it is      *)
(* issued and its callback runs in a later step; callbacks of one driver   *)
(* loop run in the order of their calls.  Steps of the popup, of the page  *)
(* and of different loops interleave freely.                               *)
(***************************************************************************)
EXTENDS Integers, Sequences, FiniteSets, TLC

----------------------------------------------------------------------------
(* Characters and strings                                                  *)

Whitespace == {" ", "\t", "\n", "\r"}

UpperChars == <<"A","B","C","D","E","F","G","H","I","J","K","L","M",
                "N","O","P","Q","R","S","T","U","V","W","X","Y","Z">>

LowerChars == <<"a","b","c","d","e","f","g","h","i","j","k","l","m",
                "n","o","p","q","r","s","t","u","v","w","x","y","z">>

toLowerChar(c) ==
    IF \E k \in DOMAIN UpperChars : UpperChars[k] = c
    THEN LowerChars[CHOOSE k \in DOMAIN UpperChars : UpperChars[k] = c]
    ELSE c

toLowerCase(s) == [k \in DOMAIN s |-> toLowerChar(s[k])]

RECURSIVE trimStart(_)
trimStart(s) ==
    IF s # <<>> /\ Head(s) \in Whitespace THEN trimStart(Tail(s)) ELSE s

RECURSIVE trimEnd(_)
trimEnd(s) ==
    IF s # <<>> /\ s[Len(s)] \in Whitespace
    THEN trimEnd(SubSeq(s, 1, Len(s) - 1))
    ELSE s

trim(s) == trimEnd(trimStart(s))

startsWith(s, p) == Len(p) <= Len(s) /\ SubSeq(s, 1, Len(p)) = p

includes(s, p) ==
    \E k \in 1..(Len(s) - Len(p) + 1) : SubSeq(s, k, k + Len(p) - 1) = p

\* Array.prototype.findIndex, 1-based; 0 stands for -1.
findIndex(arr, P(_)) ==
    IF \E k \in DOMAIN arr : P(arr[k])
    THEN CHOOSE k \in DOMAIN arr : P(arr[k]) /\ \A j \in 1..(k - 1) : ~P(arr[j])
    ELSE 0

----------------------------------------------------------------------------
(* CSV reader                                                              *)

someNonEmpty(row) == \E k \in DOMAIN row : Len(row[k]) > 0

\* pushRow keeping the rows whose every field is empty.
pushRowAlways(rows, row) == Append(rows, row)

\* The end of a row: it is kept when one of its fields is non-empty.
pushRow(rows, row) == IF someNonEmpty(row) THEN Append(rows, row) ELSE rows

\* scanCsv taking the quote for a character like any other.
RECURSIVE scanCsvUnquoted(_, _, _, _, _, _)
scanCsvUnquoted(csvText, i, inQuotes, currentField, currentRow, rows) ==
    IF i > Len(csvText)
    THEN pushRow(rows, Append(currentRow, trim(currentField)))
    ELSE IF csvText[i] = ","
    THEN scanCsvUnquoted(csvText, i + 1, FALSE, <<>>,
                         Append(currentRow, trim(currentField)), rows)
    ELSE IF csvText[i] = "\n"
    THEN scanCsvUnquoted(csvText, i + 1, FALSE, <<>>, <<>>,
                         pushRow(rows, Append(currentRow, trim(currentField))))
    ELSE scanCsvUnquoted(csvText, i + 1, FALSE,
                         Append(currentField, csvText[i]), currentRow, rows)

\* The scan of parseCsvRows from position i (1-based) with the loop's state.
RECURSIVE scanCsv(_, _, _, _, _, _)
scanCsv(csvText, i, inQuotes, currentField, currentRow, rows) ==
    IF i > Len(csvText)
    THEN pushRow(rows, Append(currentRow, trim(currentField)))
    ELSE LET char == csvText[i]
             next == IF i + 1 <= Len(csvText) THEN csvText[i + 1] ELSE "undefined"
         IN  IF inQuotes
             THEN IF char = "\""
                  THEN IF next = "\""
                       THEN scanCsv(csvText, i + 2, TRUE,
                                    Append(currentField, "\""), currentRow, rows)
                       ELSE scanCsv(csvText, i + 1, FALSE,
                                    currentField, currentRow, rows)
                  ELSE scanCsv(csvText, i + 1, TRUE,
                               Append(currentField, char), currentRow, rows)
             ELSE IF char = "\""
                  THEN scanCsv(csvText, i + 1, TRUE, currentField, currentRow, rows)
                  ELSE IF char = ","
                  THEN scanCsv(csvText, i + 1, FALSE, <<>>,
                               Append(currentRow, trim(currentField)), rows)
                  ELSE IF char = "\n" \/ (char = "\r" /\ next = "\n")
                  THEN scanCsv(csvText, IF char = "\r" THEN i + 2 ELSE i + 1,
                               FALSE, <<>>, <<>>,
                               pushRow(rows, Append(currentRow, trim(currentField))))
                  ELSE scanCsv(csvText, i + 1, FALSE,
                               Append(currentField, char), currentRow, rows)

parseCsvRows(csvText) == scanCsv(csvText, 1, FALSE, <<>>, <<>>, <<>>)

exactNames ==
    { <<"f","i","l","e"," ","n","u","m","b","e","r">>,
      <<"f","i","l","e"," ","#">>,
      <<"f","i","l","e","#">>,
      <<"f","i","l","e","n","u","m","b","e","r">>,
      <<"c","l","a","i","m"," ","n","u","m","b","e","r">>,
      <<"c","l","a","i","m"," ","#">>,
      <<"c","l","a","i","m","#">>,
      <<"c","l","a","i","m","n","u","m","b","e","r">> }

excludePatterns ==
    { <<"p","r","o","f","i","l","e">>,
      <<"f","i","l","e","d">>,
      <<"f","i","l","e","n","a","m","e">>,
      <<"c","l","a","i","m"," ","s","t","a","t","u","s">>,
      <<"c","l","a","i","m"," ","t","y","p","e">>,
      <<"c","l","a","i","m"," ","d","a","t","e">> }

strFile == <<"f","i","l","e">>

strClaim == <<"c","l","a","i","m">>

strNumber == <<"n","u","m","b","e","r">>

isExactName(h) == trim(toLowerCase(h)) \in exactNames

isNumberLike(h) ==
    LET lower == trim(toLowerCase(h))
    IN  /\ startsWith(lower, strFile) \/ startsWith(lower, strClaim)
        /\ \/ includes(lower, strNumber)
           \/ includes(lower, <<"#">>)
           \/ includes(lower, <<"n","o">>)

\* isLooseName without the exclusion patterns.
isLooseNameUnfiltered(h) ==
    LET lower == trim(toLowerCase(h))
    IN  includes(lower, strFile) \/ includes(lower, strClaim)

isLooseName(h) ==
    LET lower == trim(toLowerCase(h))
    IN  /\ ~ \E ex \in excludePatterns : includes(lower, ex)
        /\ includes(lower, strFile) \/ includes(lower, strClaim)

\* fileNumberIndex choosing the leftmost header that matches any tier.
fileNumberIndexLeftmost(headers) ==
    findIndex(headers,
              LAMBDA h : isExactName(h) \/ isNumberLike(h) \/ isLooseName(h))

\* The column choice of parseCsv: 1-based index of the header, 0 when none.
fileNumberIndex(headers) ==
    IF findIndex(headers, isExactName) # 0 THEN findIndex(headers, isExactName)
    ELSE IF findIndex(headers, isNumberLike) # 0 THEN findIndex(headers, isNumberLike)
    ELSE findIndex(headers, isLooseName)

\* collectClaims without the set of identifiers seen.
RECURSIVE collectClaimsUnseen(_, _, _, _)
collectClaimsUnseen(rows, col, r, claims) ==
    IF r > Len(rows) THEN claims
    ELSE IF Len(rows[r]) < col \/ rows[r][col] = <<>>
    THEN collectClaimsUnseen(rows, col, r + 1, claims)
    ELSE collectClaimsUnseen(rows, col, r + 1,
             Append(claims, [fileNumber |-> rows[r][col], rowIndex |-> r - 1]))

\* The row loop of parseCsv from row r on: claims are {fileNumber, rowIndex}.
RECURSIVE collectClaims(_, _, _, _)
collectClaims(rows, col, r, claims) ==
    IF r > Len(rows) THEN claims
    ELSE LET values == rows[r]
         IN  IF Len(values) < col
             THEN collectClaims(rows, col, r + 1, claims)
             ELSE LET fileNumber == values[col]
                      seen == { claims[k].fileNumber : k \in DOMAIN claims }
                  IN  IF fileNumber # <<>> /\ fileNumber \notin seen
                      THEN collectClaims(rows, col, r + 1,
                               Append(claims, [fileNumber |-> fileNumber,
                                               rowIndex |-> r - 1]))
                      ELSE collectClaims(rows, col, r + 1, claims)

ErrEmptyOrInvalid == "CSV file is empty or invalid"

ErrMissingColumn == "Could not find claim/file number column in CSV"

ErrNoClaims == "No claims found in CSV"

ErrNoJob == "No export job found to resume"

\* parseCsv: [ok |-> TRUE, claims |-> ...] or the error it throws.
parseCsv(csvText) ==
    LET rows == parseCsvRows(csvText)
    IN  IF Len(rows) < 2
        THEN [ok |-> FALSE, error |-> ErrEmptyOrInvalid]
        ELSE IF fileNumberIndex(rows[1]) = 0
        THEN [ok |-> FALSE, error |-> ErrMissingColumn]
        ELSE [ok |-> TRUE,
              claims |-> collectClaims(rows, fileNumberIndex(rows[1]), 2, <<>>)]

----------------------------------------------------------------------------
(* Bounds and inputs                                                       *)

\* Driver invocations (processCsv and resumeExport requests that are
\* delivered) in one behaviour.
MaxLoops == 2

\* "File #" with a duplicate row and a CRLF line end: claims 7, 8.
CsvTwo == <<"F","i","l","e"," ","#","\n","7","\n","8","\r","\n","7","\n">>

\* No identifier column.
CsvBad == <<"n","a","m","e","\n","x">>

\* A header and nothing else.
CsvHeaderOnly == <<"F","i","l","e"," ","#","\n">>

\* An identifier column whose only row leaves it empty.
CsvNoIds == <<"F","i","l","e"," ","#",",","x","\n",",","a">>

CsvTexts == {CsvTwo, CsvBad, CsvHeaderOnly, CsvNoIds}

\* Three claims: 7, 8, 9.
CsvThree == <<"f","i","l","e","#","\n","7","\n","8","\n","9">>

\* Data rows of the CSV files the reader is tried on.
MaxRows == 3

\* The texts joined by sep.
RECURSIVE join(_, _)
join(texts, sep) ==
    IF texts = <<>> THEN <<>>
    ELSE IF Len(texts) = 1 THEN texts[1]
    ELSE texts[1] \o sep \o join(Tail(texts), sep)

\* The CSV file of a header line and data lines.
csvOf(header, lines) == join(<<header>> \o lines, <<"\n">>)

\* Files with the identifier in the only column: rows that repeat 7 and 8
\* bare, padded and quoted, a blank line, and one other identifier.
OneColumnLines ==
    {<<"7">>, <<"8">>, <<" ","7">>, <<"\"","8","\"">>, <<>>, <<"9">>}

\* Files with the identifier in the second column: rows that repeat 7, a
\* row that ends before the column, and rows that leave it empty.
TwoColumnLines ==
    {<<"1",",","7">>, <<"2",",","8">>, <<"3",",","7",",","x">>, <<"4">>,
     <<"5",",">>}

linesUpTo(pool, n) == UNION {[1..k -> pool] : k \in 1..n}

RowCsvTexts ==
    {csvOf(<<"f","i","l","e","#">>, lines) :
        lines \in linesUpTo(OneColumnLines, MaxRows)}
    \cup {csvOf(<<"i","d",",","f","i","l","e","#">>, lines) :
        lines \in linesUpTo(TwoColumnLines, MaxRows)}

\* Columns of the headers the column choice is tried on.
MaxColumns == 3

\* Header names: two of tier 1, two of tier 2, two of tier 3, one that an
\* exclusion pattern keeps out of tier 3, one that matches nothing.
HeaderNames ==
    {<<"f","i","l","e","#">>, <<"C","l","a","i","m"," ","#">>,
     <<"f","i","l","e","n","o">>, <<"C","L","A","I","M"," ","N","o",".">>,
     <<"c","l","a","i","m">>, <<"a"," ","F","i","l","e">>,
     <<"f","i","l","e","d">>, <<"i","d">>}

\* The tier a header matches first, 4 when it matches none.
tierOf(h) ==
    IF isExactName(h) THEN 1
    ELSE IF isNumberLike(h) THEN 2
    ELSE IF isLooseName(h) THEN 3
    ELSE 4

\* tierOf of each header name, evaluated once.
HeaderTier == [h \in HeaderNames |-> tierOf(h)]

digitOf(n) == <<"0","1","2","3","4","5","6","7","8","9">>[n + 1]

\* A file with the header names and one data row; the cell below the k-th
\* header is k followed by the tiers of all the headers.
headerCsv(names) ==
    csvOf(join(names, <<",">>),
          <<join([k \in DOMAIN names |->
                     <<digitOf(k)>> \o [j \in DOMAIN names |-> digitOf(HeaderTier[names[j]])]],
                 <<",">>)>>)

HeaderRows == linesUpTo(HeaderNames, MaxColumns)

HeaderCsvTexts == {headerCsv(names) : names \in HeaderRows}

\* Characters of the quoted fields the tokenizer is tried on.
MaxContent == 3

QuotedContents == linesUpTo({"7", ",", "\n", "\r", "\"", " "}, MaxContent)

\* A field as a CSV writer quotes it: in quotes, every quote doubled.
RECURSIVE doubled(_)
doubled(content) ==
    IF content = <<>> THEN <<>>
    ELSE (IF Head(content) = "\"" THEN <<"\"", "\"">> ELSE <<Head(content)>>)
             \o doubled(Tail(content))

quoted(content) == <<"\"">> \o doubled(content) \o <<"\"">>

\* A file whose first data row is the quoted field and x, and whose second
\* is 8.
quotedCsv(content) ==
    csvOf(<<"f","i","l","e","#",",","c">>,
          <<quoted(content) \o <<",","x">>, <<"8">>>>)

QuotedCsvTexts == {quotedCsv(content) : content \in QuotedContents}

\* Lines of the files the row count is tried on: four whose every field is
\* empty (nothing, a comma, blanks around a comma before a CRLF line end, a
\* quoted empty field), a header and an identifier.
BlankLines ==
    {<<>>, <<",">>, <<" ",","," ","\r">>, <<"\"","\"">>,
     <<"f","i","l","e","#">>, <<"7">>}

BlankRows == linesUpTo(BlankLines, MaxRows)

BlankCsvTexts == {join(lines, <<"\n">>) : lines \in BlankRows}

\* Header names with "file" or "claim" in them: one for each exclusion
\* pattern, one that no pattern excludes, and one with neither word.
ExcludedHeaderNames ==
    {<<"P","r","o","f","i","l","e">>, <<"f","i","l","e","d">>,
     <<"F","i","l","e","n","a","m","e">>,
     <<"c","l","a","i","m"," ","s","t","a","t","u","s">>,
     <<"C","l","a","i","m"," ","T","y","p","e">>,
     <<"c","l","a","i","m"," ","d","a","t","e">>,
     <<"m","y"," ","c","l","a","i","m">>, <<"i","d">>}

ExcludedHeaderRows == linesUpTo(ExcludedHeaderNames, MaxColumns)

\* A file with the header names and one data row; the cell below the k-th
\* header is k.
excludedCsv(names) ==
    csvOf(join(names, <<",">>),
          <<join([k \in DOMAIN names |-> <<digitOf(k)>>], <<",">>)>>)

ExcludedCsvTexts == {excludedCsv(names) : names \in ExcludedHeaderRows}

\* The inputs of the reader on its own.
ParseCsvTexts ==
    RowCsvTexts \cup HeaderCsvTexts \cup QuotedCsvTexts \cup BlankCsvTexts
        \cup ExcludedCsvTexts

\* parseCsv of each input, evaluated once.
CsvParsed == [t \in CsvTexts \cup {CsvThree} \cup ParseCsvTexts |-> parseCsv(t)]

\* The inputs from which an export starts.
ValidCsvTexts == {t \in CsvTexts : CsvParsed[t].ok /\ CsvParsed[t].claims # <<>>}

\* How long before progress counts as stale (page probably crashed).
STALE_THRESHOLD_MS == 30000

\* Ages of the last progress update when the popup opens: at and past the
\* threshold.  Every await of the driver can take that long.
UpdateAges == {STALE_THRESHOLD_MS, STALE_THRESHOLD_MS + 1}

\* What fetchClaimDetails does for the driver: it returns a record or throws.
FetchOutcomes == {"ok", "throws"}

----------------------------------------------------------------------------
(* State                                                                   *)

VARIABLES
    exportJob,       \* storage key exportJob, or NoJob
    claimKeys,       \* storage keys exportedClaim_<i>: index -> record, present keys only
    exportComplete,  \* storage key exportComplete (TRUE) or absent (FALSE)
    exportProgress,  \* storage key exportProgress, or NoProgress (absent or null)
    exportError,     \* storage key exportError, or NoError
    loops,           \* the driver invocations of the page, by number
    started,         \* driver invocations so far; the next one's Date.now()
    popupView,       \* what the popup shows, "closed" when it is not open
    download         \* the popup's downloadFromStorage call, if one is under way

vars == <<exportJob, claimKeys, exportComplete, exportProgress, exportError,
          loops, started, popupView, download>>

storeVars == <<exportJob, claimKeys, exportComplete, exportProgress, exportError>>

NoJob == [absent |-> TRUE]

NoProgress == [absent |-> TRUE]

NoError == "none"

NoRead == [pending |-> FALSE]

LoopIds == 1..MaxLoops

\* A call of fetchClaimDetails as it stands when it is made: the search
\* request is out.  inFlight are the requests out other than folder
\* listings, listings the folder listings out.
NewCall == [pc |-> "search", inFlight |-> {"search"}, listings |-> {}]

\* A driver invocation that has not begun or has returned.  `call` is the
\* call of fetchClaimDetails the invocation is in while its pc is "fetch".
IdleLoop == [pc |-> "idle", claims |-> <<>>, i |-> 0, startFrom |-> 0,
             got |-> NoRead, rmw |-> NoRead, call |-> NewCall]

\* A driver invocation that died with its page.
KilledLoop == [IdleLoop EXCEPT !.pc = "killed"]

\* No downloadFromStorage call is under way.
NoDownload == [pc |-> "idle"]

RunningPcs == {"saveJob", "getJob", "fetch", "saveClaim", "sleep"}

Running(l) == loops[l].pc \in RunningPcs

\* The per-claim loop of processClaimsList is being executed by invocation l.
InLoop(l) == loops[l].pc \in {"fetch", "saveClaim", "sleep"}

Init ==
    /\ exportJob = NoJob
    /\ claimKeys = <<>>
    /\ exportComplete = FALSE
    /\ exportProgress = NoProgress
    /\ exportError = NoError
    /\ loops = [l \in LoopIds |-> IdleLoop]
    /\ started = 0
    /\ popupView = "input"
    /\ download = NoDownload

----------------------------------------------------------------------------
(* Content script: storage helpers                                         *)

\* Keys 0..n-1.
Indices(n) == 0..(n - 1)

\* saveProgress: the progress entry, stamped now.
saveProgress(current, total, status) ==
    [current |-> current, total |-> total, status |-> status]

\* claimData without the catch block's error tag.
claimDataUntagged(claim, outcome) ==
    [fileNumber |-> claim.fileNumber, error |-> FALSE]

\* The record processClaimsList builds for claim `claim` from the fetch.
claimData(claim, outcome) ==
    [fileNumber |-> claim.fileNumber, error |-> (outcome = "throws")]

\* saveClaimToStorage with every record under exportedClaim_0.
saveClaimToStorageAtZero(keys, index, data) == (0 :> data) @@ keys

\* saveClaimToStorage: the store with exportedClaim_<index> set.
saveClaimToStorage(keys, index, data) == (index :> data) @@ keys

\* chrome.storage.local.remove of exportedClaim_<k>, k in idx.
removeClaims(keys, idx) == [k \in (DOMAIN keys) \ idx |-> keys[k]]

----------------------------------------------------------------------------
(* Popup: what an open popup shows after an event of the export            *)

\* chrome.storage.onChanged with a new exportProgress: in step 3 the crash
\* recovery panel is hidden and the progress bar updated.
viewOnProgress(view) == IF view = "recovery" THEN "progress" ELSE view

\* The exportComplete message: goToStep(4).
viewOnComplete(view) == IF view = "closed" THEN "closed" ELSE "done"

\* showProcessingError: the error badge is shown in step 3.
viewOnError(view) == IF view = "closed" THEN "closed" ELSE "error"

\* The view the DOMContentLoaded handler picks from the store when the last
\* progress update is timeSinceUpdate old.
viewOnOpen(timeSinceUpdate) ==
    IF exportComplete /\ exportJob # NoJob THEN "done"
    ELSE IF exportProgress # NoProgress
    THEN IF timeSinceUpdate > STALE_THRESHOLD_MS /\ exportJob # NoJob
         THEN "recovery" ELSE "progress"
    ELSE IF exportJob # NoJob /\ exportJob.completedCount > 0 /\ ~exportComplete
    THEN "recovery"
    ELSE "input"

----------------------------------------------------------------------------
(* Content script: the driver                                              *)

\* The catch blocks of processCsvAndFetchData and resumeExport: the error is
\* stored and sent to the popup; the invocation ends.
JobFailed(msg) ==
    /\ exportError' = msg
    /\ exportProgress' = NoProgress
    /\ popupView' = viewOnError(popupView)

\* The end of processClaimsList: the job is marked finished.
MarkComplete ==
    /\ exportProgress' = NoProgress
    /\ exportComplete' = TRUE
    /\ popupView' = viewOnComplete(popupView)

\* BeginClaim saving the progress only where a popup is there to hear of it.
BeginClaimWhenHeard(i, total) ==
    /\ exportProgress' = IF popupView = "closed" THEN exportProgress
                         ELSE saveProgress(i + 1, total, "Processing")
    /\ popupView' = viewOnProgress(popupView)

\* The head of an iteration of processClaimsList for index i: progress is
\* saved and sent, fetchClaimDetails is called.
BeginClaim(i, total) ==
    /\ exportProgress' = saveProgress(i + 1, total, "Processing")
    /\ popupView' = viewOnProgress(popupView)

\* processClaimsList with its loop started at index 0 whatever startFrom is.
processClaimsListFromZero(l, claimsToProcess, startFrom) ==
    IF 0 < Len(claimsToProcess)
    THEN /\ BeginClaim(0, Len(claimsToProcess))
         /\ loops' = [loops EXCEPT ![l] =
                [IdleLoop EXCEPT !.pc = "fetch", !.claims = claimsToProcess,
                                 !.i = 0, !.startFrom = 0]]
         /\ UNCHANGED <<exportComplete, exportError>>
    ELSE /\ MarkComplete
         /\ loops' = [loops EXCEPT ![l] = IdleLoop]
         /\ UNCHANGED exportError

\* processClaimsList(claimsToProcess, startFrom) up to its first await.
processClaimsList(l, claimsToProcess, startFrom) ==
    IF startFrom < Len(claimsToProcess)
    THEN /\ BeginClaim(startFrom, Len(claimsToProcess))
         /\ loops' = [loops EXCEPT ![l] =
                [IdleLoop EXCEPT !.pc = "fetch", !.claims = claimsToProcess,
                                 !.i = startFrom, !.startFrom = startFrom]]
         /\ UNCHANGED <<exportComplete, exportError>>
    ELSE /\ MarkComplete
         /\ loops' = [loops EXCEPT ![l] = IdleLoop]
         /\ UNCHANGED exportError

\* The job record processCsvAndFetchData writes.
newJob(claimsToProcess, testMode, now) ==
    [fileNumbers |-> [k \in DOMAIN claimsToProcess |-> claimsToProcess[k].fileNumber],
     total |-> Len(claimsToProcess),
     completedCount |-> 0,
     testMode |-> testMode,
     startedAt |-> now]

\* processCsvAndFetchData clearing the stored job before it parses.
processCsvAndFetchDataClearing(csvText, testMode, view) ==
    LET parsed == CsvParsed[csvText]
    IN  IF ~parsed.ok \/ parsed.claims = <<>>
        THEN /\ JobFailed(IF parsed.ok THEN ErrNoClaims ELSE parsed.error)
             /\ exportComplete' = FALSE
             /\ exportJob' = NoJob
             /\ UNCHANGED <<claimKeys, loops, started, download>>
        ELSE /\ started < MaxLoops
             /\ LET claimsToProcess ==
                        IF testMode THEN SubSeq(parsed.claims, 1, 1)
                        ELSE parsed.claims
                IN  /\ exportJob' = newJob(claimsToProcess, testMode, started + 1)
                    /\ loops' = [loops EXCEPT ![started + 1] =
                           [IdleLoop EXCEPT !.pc = "saveJob",
                                            !.claims = claimsToProcess]]
             /\ started' = started + 1
             /\ exportComplete' = FALSE
             /\ exportProgress' = NoProgress
             /\ exportError' = NoError
             /\ popupView' = view
             /\ UNCHANGED <<claimKeys, download>>

\* The content script's processCsv handler and processCsvAndFetchData up to
\* the job write: the previous export state is cleared, the CSV parsed, the
\* job written.  `view` is what the popup shows once the export has started.
processCsvAndFetchData(csvText, testMode, view) ==
    LET parsed == CsvParsed[csvText]
    IN  IF ~parsed.ok \/ parsed.claims = <<>>
        THEN /\ JobFailed(IF parsed.ok THEN ErrNoClaims ELSE parsed.error)
             /\ exportComplete' = FALSE
             /\ UNCHANGED <<exportJob, claimKeys, loops, started, download>>
        ELSE /\ started < MaxLoops
             /\ LET claimsToProcess ==
                        IF testMode THEN SubSeq(parsed.claims, 1, 1)
                        ELSE parsed.claims
                IN  /\ exportJob' = newJob(claimsToProcess, testMode, started + 1)
                    /\ loops' = [loops EXCEPT ![started + 1] =
                           [IdleLoop EXCEPT !.pc = "saveJob",
                                            !.claims = claimsToProcess]]
             /\ started' = started + 1
             /\ exportComplete' = FALSE
             /\ exportProgress' = NoProgress
             /\ exportError' = NoError
             /\ popupView' = view
             /\ UNCHANGED <<claimKeys, download>>

\* The popup's startProcessing: step 3 is shown and the CSV sent to the page.
ProcessCsv(csvText, testMode) ==
    /\ popupView = "input"
    /\ processCsvAndFetchData(csvText, testMode, "progress")

\* The job write's callback: the per-claim loop starts at index 0.
JobSaved(l) ==
    /\ loops[l].pc = "saveJob"
    /\ processClaimsList(l, loops[l].claims, 0)
    /\ UNCHANGED <<exportJob, claimKeys, started, download>>

\* The content script's resumeExport handler and resumeExport up to its read
\* of the job.  `view` is what the popup shows once the request is sent.
resumeExport(view) ==
    /\ started < MaxLoops
    /\ loops' = [loops EXCEPT ![started + 1] =
           [IdleLoop EXCEPT !.pc = "getJob",
                            !.got = [pending |-> TRUE, job |-> exportJob]]]
    /\ started' = started + 1
    /\ popupView' = view
    /\ UNCHANGED <<storeVars, download>>

\* The popup's resumeExport: Resume is clicked in the crash recovery panel.
ResumeExport ==
    /\ popupView = "recovery"
    /\ resumeExport("progress")

\* ResumeGot ending without a word when no job is stored.
ResumeGotSilent(l) ==
    /\ loops[l].pc = "getJob"
    /\ LET job == loops[l].got.job
       IN  IF job = NoJob
           THEN /\ loops' = [loops EXCEPT ![l] = IdleLoop]
                /\ UNCHANGED <<exportComplete, exportError, exportProgress, popupView>>
           ELSE processClaimsList(l,
                    [k \in DOMAIN job.fileNumbers |->
                        [fileNumber |-> job.fileNumbers[k], rowIndex |-> k - 1]],
                    job.completedCount)
    /\ UNCHANGED <<exportJob, claimKeys, started, download>>

\* The read's callback: without a job the resume fails, with one the loop is
\* re-entered at the job's completedCount.
ResumeGot(l) ==
    /\ loops[l].pc = "getJob"
    /\ LET job == loops[l].got.job
       IN  IF job = NoJob
           THEN /\ JobFailed(ErrNoJob)
                /\ loops' = [loops EXCEPT ![l] = IdleLoop]
                /\ UNCHANGED exportComplete
           ELSE processClaimsList(l,
                    [k \in DOMAIN job.fileNumbers |->
                        [fileNumber |-> job.fileNumbers[k], rowIndex |-> k - 1]],
                    job.completedCount)
    /\ UNCHANGED <<exportJob, claimKeys, started, download>>

\* fetchClaimDetails settles: the record, or the error-tagged stub, is written
\* to the claim's key.
FetchSettled(l, outcome) ==
    /\ loops[l].pc = "fetch"
    /\ claimKeys' = saveClaimToStorage(claimKeys, loops[l].i,
                        claimData(loops[l].claims[loops[l].i + 1], outcome))
    /\ loops' = [loops EXCEPT ![l].pc = "saveClaim"]
    /\ UNCHANGED <<exportJob, exportComplete, exportProgress, exportError,
                   started, popupView, download>>

\* ClaimSaved going on to the next claim without the pacing delay.
ClaimSavedUnpaced(l) ==
    /\ loops[l].pc = "saveClaim"
    /\ ~loops[l].rmw.pending
    /\ LET read == [pending |-> TRUE, job |-> exportJob, idx |-> loops[l].i + 1]
       IN  IF loops[l].i < Len(loops[l].claims) - 1
           THEN /\ BeginClaim(loops[l].i + 1, Len(loops[l].claims))
                /\ loops' = [loops EXCEPT ![l].pc = "fetch", ![l].rmw = read,
                                          ![l].i = loops[l].i + 1]
                /\ UNCHANGED exportComplete
           ELSE /\ MarkComplete
                /\ loops' = [loops EXCEPT ![l] = [IdleLoop EXCEPT !.rmw = read]]
    /\ UNCHANGED <<exportJob, claimKeys, exportError, started, download>>

\* The record write's callback: the read of the job for the count update is
\* issued, then the loop sleeps or, after the last claim, finishes.
ClaimSaved(l) ==
    /\ loops[l].pc = "saveClaim"
    /\ ~loops[l].rmw.pending
    /\ LET read == [pending |-> TRUE, job |-> exportJob, idx |-> loops[l].i + 1]
       IN  IF loops[l].i < Len(loops[l].claims) - 1
           THEN /\ loops' = [loops EXCEPT ![l].pc = "sleep", ![l].rmw = read]
                /\ UNCHANGED <<exportComplete, exportProgress, popupView>>
           ELSE /\ MarkComplete
                /\ loops' = [loops EXCEPT ![l] = [IdleLoop EXCEPT !.rmw = read]]
    /\ UNCHANGED <<exportJob, claimKeys, exportError, started, download>>

\* The callback of the read: completedCount is set in the job that was read
\* and that job is written back.
UpdateCount(l) ==
    /\ loops[l].rmw.pending
    /\ exportJob' = IF loops[l].rmw.job # NoJob
                    THEN [loops[l].rmw.job EXCEPT !.completedCount = loops[l].rmw.idx]
                    ELSE exportJob
    /\ loops' = [loops EXCEPT ![l].rmw = NoRead]
    /\ UNCHANGED <<claimKeys, exportComplete, exportProgress, exportError,
                   started, popupView, download>>

\* SleepDone fetching the claim of the last iteration once more.
SleepDoneAgain(l) ==
    /\ loops[l].pc = "sleep"
    /\ ~loops[l].rmw.pending
    /\ BeginClaim(loops[l].i, Len(loops[l].claims))
    /\ loops' = [loops EXCEPT ![l].pc = "fetch"]
    /\ UNCHANGED <<exportJob, claimKeys, exportComplete, exportError, started,
                   download>>

\* The pacing delay between two claims (1 to 2.5 s) ends: the next iteration
\* begins.  The storage callback of the count update has run by then.
SleepDone(l) ==
    /\ loops[l].pc = "sleep"
    /\ ~loops[l].rmw.pending
    /\ BeginClaim(loops[l].i + 1, Len(loops[l].claims))
    /\ loops' = [loops EXCEPT ![l].pc = "fetch", ![l].i = loops[l].i + 1]
    /\ UNCHANGED <<exportJob, claimKeys, exportComplete, exportError, started,
                   download>>

\* The ClaimWizard page is closed or reloaded: every driver invocation and
\* every pending callback of the page is gone; the store stays.
Crash ==
    /\ \E l \in LoopIds : Running(l) \/ loops[l].rmw.pending
    /\ loops' = [l \in LoopIds |->
                    IF Running(l) \/ loops[l].rmw.pending THEN KilledLoop ELSE loops[l]]
    /\ UNCHANGED <<storeVars, started, popupView, download>>

----------------------------------------------------------------------------
(* Popup                                                                   *)

\* DOMContentLoaded: the view is picked from the store; a stored error is
\* shown and removed.
PopupOpen(timeSinceUpdate) ==
    /\ popupView = "closed"
    /\ popupView' = viewOnOpen(timeSinceUpdate)
    /\ exportError' = IF viewOnOpen(timeSinceUpdate) = "input"
                       THEN NoError ELSE exportError
    /\ UNCHANGED <<exportJob, claimKeys, exportComplete, exportProgress,
                   loops, started, download>>

\* The popup is closed.
PopupClose ==
    /\ popupView # "closed"
    /\ popupView' = "closed"
    /\ download' = NoDownload
    /\ UNCHANGED <<storeVars, loops, started>>

\* Resume is clicked while the active tab is no ClaimWizard page, or the
\* message cannot be delivered: showProcessingError, back to step 2.
ResumeRefused ==
    /\ popupView = "recovery"
    /\ popupView' = "input"
    /\ UNCHANGED <<storeVars, loops, started, download>>

\* The popup has shown an error of the content script: its onChanged listener
\* removes exportError, and three seconds later the wizard is at step 2.
ErrorDismissed ==
    /\ popupView = "error"
    /\ popupView' = "input"
    /\ exportError' = NoError
    /\ UNCHANGED <<exportJob, claimKeys, exportComplete, exportProgress,
                   loops, started, download>>

\* startOver: the job is read and, in the read's callback, the export state,
\* the job and the keys 0..total-1 of that job are removed; the wizard goes
\* back to step 1.  The callback follows the read before anything else runs.
startOver ==
    /\ popupView \in {"done", "recovery"}
    /\ exportComplete' = FALSE
    /\ exportProgress' = NoProgress
    /\ exportError' = NoError
    /\ exportJob' = NoJob
    /\ claimKeys' = IF exportJob # NoJob
                    THEN removeClaims(claimKeys, Indices(exportJob.total))
                    ELSE claimKeys
    /\ popupView' = "input"
    /\ UNCHANGED <<loops, started, download>>

----------------------------------------------------------------------------
(* Popup: the assembler (downloadFromStorage)                              *)

\* Records read from the store per chrome.storage.local.get of the assembler.
LOAD_BATCH_SIZE == 100

Min(a, b) == IF a < b THEN a ELSE b

\* The pieces of text the assembler emits besides the stringified records.
Header == [text |-> "{claimWizardData:{claims:["]

Separator == [text |-> ","]

\* Files one popup saves before it is closed; the clock of new Date() reads
\* 1..MaxDownloads.
MaxDownloads == 2

\* footer without the fields of a partial export.
footerPlain(count, total, isPartial, now) ==
    [exportDate |-> now, date |-> now, totalClaims |-> count]

\* footer with the time of the download in its version field.
footerVersioned(count, total, isPartial, now) ==
    [exportDate |-> now, date |-> now, version |-> now, totalClaims |-> count]
        @@ (IF isPartial
            THEN [partial |-> TRUE, originalTotal |-> total, note |-> <<count, total>>]
            ELSE <<>>)

\* The closing structure: exportDate of claimWizardData, and exportInfo with
\* date, version and totalClaims; partial exports carry three more fields.
footer(count, total, isPartial, now) ==
    [exportDate |-> now, date |-> now, version |-> "1.0.2", totalClaims |-> count]
        @@ (IF isPartial
            THEN [partial |-> TRUE, originalTotal |-> total, note |-> <<count, total>>]
            ELSE <<>>)

\* getClaims reading every key below `to` again.
getClaimsFromZero(from, to) ==
    [k \in (DOMAIN claimKeys) \cap (0..(to - 1)) |-> claimKeys[k]]

\* chrome.storage.local.get of exportedClaim_<from>..exportedClaim_<to - 1>:
\* the keys that are present.
getClaims(from, to) ==
    [k \in (DOMAIN claimKeys) \cap (from..(to - 1)) |-> claimKeys[k]]

\* The keys of batchData from i up to batchEnd, and the key a loop over them
\* meets as its n-th.
keysInBatch(batchData, i, batchEnd) == (DOMAIN batchData) \cap (i..(batchEnd - 1))

nthKey(keys, n) ==
    CHOOSE k \in keys : Cardinality({x \in keys : x < k}) = n - 1

\* stringifyBatch with the separator decided inside each batch alone.
stringifyBatchAlone(batchData, i, batchEnd, isFirstClaim, batchStr) ==
    LET keys == keysInBatch(batchData, i, batchEnd)
        order == [n \in 1..Cardinality(keys) |-> nthKey(keys, n)]
    IN  [batchStr |-> batchStr \o
            [m \in 1..(2 * Len(order) - (IF Len(order) > 0 THEN 1 ELSE 0)) |->
                IF m % 2 = 1 THEN batchData[order[(m + 1) \div 2]]
                ELSE Separator],
         isFirstClaim |-> FALSE]

\* The inner loop over one batch, from index i up to batchEnd: batchStr and
\* isFirstClaim after it.  Every record found under its key is appended in
\* the order of the indices, after a separator unless it is the first claim
\* of the file.
stringifyBatch(batchData, i, batchEnd, isFirstClaim, batchStr) ==
    LET keys == keysInBatch(batchData, i, batchEnd)
        order == [n \in 1..Cardinality(keys) |-> nthKey(keys, n)]
        first == IF isFirstClaim /\ Len(order) > 0 THEN <<batchData[order[1]]>>
                 ELSE <<>>
        rest == IF isFirstClaim THEN Len(order) - 1 ELSE Len(order)
        from == Len(order) - rest
    IN  [batchStr |-> batchStr \o first \o
            [m \in 1..(2 * (IF rest > 0 THEN rest ELSE 0)) |->
                IF m % 2 = 1 THEN Separator
                ELSE batchData[order[from + m \div 2]]],
         isFirstClaim |-> isFirstClaim /\ Len(order) = 0]

\* Download JSON (step 4) or Download Partial (crash recovery panel) is
\* clicked: downloadFromStorage reads the job.  `since` is the time of the
\* file this popup saved before, 0 when it saved none.
DownloadClick(isPartial) ==
    /\ download.pc \in {"idle", "saved"}
    /\ download.pc = "saved" => download.now < MaxDownloads
    /\ \/ popupView = "done" /\ ~isPartial
       \/ popupView = "recovery" /\ isPartial
    /\ download' = [pc |-> "job", isPartial |-> isPartial, job |-> exportJob,
                    since |-> IF download.pc = "saved" THEN download.now ELSE 0]
    /\ UNCHANGED <<storeVars, loops, started, popupView>>

\* The job read's callback: nothing to download, or the header is pushed and
\* the first batch is requested.
DownloadGotJob ==
    /\ download.pc = "job"
    /\ LET job == download.job
       IN  IF job = NoJob \/ job.completedCount = 0
           THEN download' = NoDownload
           ELSE download' =
                    [pc |-> "batch", isPartial |-> download.isPartial,
                     since |-> download.since,
                     count |-> job.completedCount, total |-> job.total,
                     blobParts |-> <<<<Header>>>>, isFirstClaim |-> TRUE,
                     batchStart |-> 0,
                     batchData |-> getClaims(0, Min(LOAD_BATCH_SIZE, job.completedCount))]
    /\ UNCHANGED <<storeVars, loops, started, popupView>>

\* A batch read's callback: the batch is stringified and pushed as one part.
\* batchData stays in scope until the iteration ends.
DownloadBatch ==
    /\ download.pc = "batch"
    /\ LET batchEnd == Min(download.batchStart + LOAD_BATCH_SIZE, download.count)
           done == stringifyBatch(download.batchData, download.batchStart, batchEnd,
                                  download.isFirstClaim, <<>>)
       IN  download' = [download EXCEPT
                !.pc = "breathe",
                !.blobParts = IF done.batchStr # <<>>
                              THEN Append(download.blobParts, done.batchStr)
                              ELSE download.blobParts,
                !.isFirstClaim = done.isFirstClaim]
    /\ UNCHANGED <<storeVars, loops, started, popupView>>

\* DownloadBreathe removing the per-claim records once the file is saved.
DownloadBreatheConsuming ==
    /\ download.pc = "breathe"
    /\ LET batchStart == download.batchStart + LOAD_BATCH_SIZE
       IN  IF batchStart < download.count
           THEN /\ download' = [download EXCEPT
                    !.pc = "batch",
                    !.batchStart = batchStart,
                    !.batchData = getClaims(batchStart,
                                      Min(batchStart + LOAD_BATCH_SIZE, download.count))]
                /\ UNCHANGED claimKeys
           ELSE /\ \E now \in (download.since + 1)..MaxDownloads :
                    download' =
                        [pc |-> "saved", isPartial |-> download.isPartial,
                         count |-> download.count, total |-> download.total,
                         now |-> now,
                         blobParts |-> Append(download.blobParts,
                             <<footer(download.count, download.total,
                                      download.isPartial, now)>>)]
                /\ claimKeys' = removeClaims(claimKeys, Indices(download.count))
    /\ UNCHANGED <<exportJob, exportComplete, exportProgress, exportError,
                   loops, started, popupView>>

\* The zero timeout between batches ends: the next batch is requested, or the
\* footer is pushed with the time it is now, and the file is saved.
DownloadBreathe ==
    /\ download.pc = "breathe"
    /\ LET batchStart == download.batchStart + LOAD_BATCH_SIZE
       IN  IF batchStart < download.count
           THEN download' = [download EXCEPT
                    !.pc = "batch",
                    !.batchStart = batchStart,
                    !.batchData = getClaims(batchStart,
                                      Min(batchStart + LOAD_BATCH_SIZE, download.count))]
           ELSE \E now \in (download.since + 1)..MaxDownloads :
                    download' =
                        [pc |-> "saved", isPartial |-> download.isPartial,
                         count |-> download.count, total |-> download.total,
                         now |-> now,
                         blobParts |-> Append(download.blobParts,
                             <<footer(download.count, download.total,
                                      download.isPartial, now)>>)]
    /\ UNCHANGED <<storeVars, loops, started, popupView>>

\* The text of the saved file: the parts in order.
RECURSIVE concat(_)
concat(parts) == IF parts = <<>> THEN <<>> ELSE Head(parts) \o concat(Tail(parts))

\* JSON.parse of the saved file, claimWizardData.claims: the entries between
\* header and footer, provided exactly one separator stands between two
\* entries and none before the first or behind the last;
\* <<[invalid |-> TRUE]>> where the text is no JSON.
parseEntries(text) ==
    IF text = <<>> THEN <<>>
    ELSE IF /\ Len(text) % 2 = 1
            /\ \A k \in DOMAIN text : (text[k] = Separator) = (k % 2 = 0)
    THEN [k \in 1..((Len(text) + 1) \div 2) |-> text[2 * k - 1]]
    ELSE <<[invalid |-> TRUE]>>

documentClaims(blobParts) ==
    LET text == concat(blobParts)
    IN  parseEntries(SubSeq(text, 2, Len(text) - 1))

\* exportInfo of the saved file.
documentInfo(blobParts) == LET text == concat(blobParts) IN text[Len(text)]

----------------------------------------------------------------------------
(* The whole extension: any number of exports, resumes and start-overs,     *)
(* with the page closed at any await, started from CSV files that parse.   *)
(* The assembler only reads the store; it runs in ExportSpec below.  CSV    *)
(* files that do not parse and requests outside the popup's wizard are in   *)
(* ListenerSpec.                                                            *)

Next ==
    \/ \E csvText \in ValidCsvTexts, testMode \in BOOLEAN : ProcessCsv(csvText, testMode)
    \/ ResumeExport
    \/ \E l \in LoopIds : JobSaved(l)
    \/ \E l \in LoopIds : ResumeGot(l)
    \/ \E l \in LoopIds, outcome \in FetchOutcomes : FetchSettled(l, outcome)
    \/ \E l \in LoopIds : ClaimSaved(l)
    \/ \E l \in LoopIds : UpdateCount(l)
    \/ \E l \in LoopIds : SleepDone(l)
    \/ Crash
    \/ \E timeSinceUpdate \in UpdateAges : PopupOpen(timeSinceUpdate)
    \/ PopupClose
    \/ ResumeRefused
    \/ startOver

Spec == Init /\ [][Next]_vars

----------------------------------------------------------------------------
(* One export, from the CSV to the saved file: the page may be closed and   *)
(* the export resumed from the crash recovery panel; the popup is opened,   *)
(* closed and used to download at any time.                                 *)

\* Nothing of the content script is running or pending.
PageIdle == \A l \in LoopIds : ~Running(l) /\ ~loops[l].rmw.pending

ExportNext ==
    \/ started = 0 /\ \E csvText \in CsvTexts \cup {CsvThree}, testMode \in BOOLEAN :
                           ProcessCsv(csvText, testMode)
    \/ PageIdle /\ ResumeExport
    \/ \E l \in LoopIds : JobSaved(l)
    \/ \E l \in LoopIds : ResumeGot(l)
    \/ \E l \in LoopIds, outcome \in FetchOutcomes : FetchSettled(l, outcome)
    \/ \E l \in LoopIds : ClaimSaved(l)
    \/ \E l \in LoopIds : UpdateCount(l)
    \/ \E l \in LoopIds : SleepDone(l)
    \/ started < MaxLoops /\ Crash
    \/ \E timeSinceUpdate \in UpdateAges : PopupOpen(timeSinceUpdate)
    \/ PopupClose
    \/ ErrorDismissed
    \/ \E isPartial \in BOOLEAN : DownloadClick(isPartial)
    \/ DownloadGotJob
    \/ DownloadBatch
    \/ DownloadBreathe

\* Storage callbacks run, requests settle and timers fire while the page
\* lives.
ExportFairness ==
    \A l \in LoopIds :
        /\ WF_vars(JobSaved(l))
        /\ WF_vars(ResumeGot(l))
        /\ WF_vars(\E outcome \in FetchOutcomes : FetchSettled(l, outcome))
        /\ WF_vars(ClaimSaved(l))
        /\ WF_vars(UpdateCount(l))
        /\ WF_vars(SleepDone(l))

ExportSpec == Init /\ [][ExportNext]_vars /\ ExportFairness

----------------------------------------------------------------------------
(* The assembler on the store one export leaves behind, for numbers of      *)
(* saved claims around the batch size.                                      *)

MaxBatches == 2

\* completedCount: one claim, half a batch, the multiples of the batch size
\* and their neighbours, and one and a half batches.
AssembledCounts ==
    {1, LOAD_BATCH_SIZE \div 2, LOAD_BATCH_SIZE + LOAD_BATCH_SIZE \div 2}
        \cup UNION {{b * LOAD_BATCH_SIZE - 1, b * LOAD_BATCH_SIZE,
                     b * LOAD_BATCH_SIZE + 1} : b \in 1..MaxBatches}

\* The identifier of row k of the CSV: the digits of k.
RECURSIVE fileNumberOf(_)
fileNumberOf(k) ==
    LET digit == <<SubSeq(<<"0","1","2","3","4","5","6","7","8","9">>,
                          (k % 10) + 1, (k % 10) + 1)[1]>>
    IN  IF k < 10 THEN digit ELSE fileNumberOf(k \div 10) \o digit

\* The store after count of count + left claims were fetched and counted;
\* with ahead, the record of the next index is stored too (written but not
\* yet counted, or left by an earlier job).  The popup is closed; the page
\* of an unfinished job was closed.
AssemblerInit ==
    \E count \in AssembledCounts, left \in 0..1, ahead \in BOOLEAN :
        /\ exportJob =
               [fileNumbers |-> [k \in 1..(count + left) |-> fileNumberOf(k - 1)],
                total |-> count + left,
                completedCount |-> count,
                testMode |-> FALSE,
                startedAt |-> 1]
        /\ claimKeys =
               [k \in 0..(IF ahead THEN count ELSE count - 1) |->
                   claimData([fileNumber |-> fileNumberOf(k), rowIndex |-> k], "ok")]
        /\ exportComplete = (left = 0)
        /\ exportProgress = IF left = 0 THEN NoProgress
                            ELSE saveProgress(count + 1, count + left, "Processing")
        /\ exportError = NoError
        /\ loops = [l \in LoopIds |->
                       IF l = 1 /\ left > 0 THEN KilledLoop ELSE IdleLoop]
        /\ started = 1
        /\ popupView = "closed"
        /\ download = NoDownload

AssemblerNext ==
    \/ \E timeSinceUpdate \in UpdateAges : PopupOpen(timeSinceUpdate)
    \/ PopupClose
    \/ \E isPartial \in BOOLEAN : DownloadClick(isPartial)
    \/ DownloadGotJob
    \/ DownloadBatch
    \/ DownloadBreathe

AssemblerSpec == AssemblerInit /\ [][AssemblerNext]_vars

----------------------------------------------------------------------------
(* Content script: fetchClaimDetails                                       *)

\* JavaScript values as far as fetchClaimDetails looks at them.
Undefined == [type |-> "undefined"]

Null == [type |-> "null"]

Arr(items) == [type |-> "array", items |-> items]

Obj(fields) == [type |-> "object", fields |-> fields]

\* value?.name
get(value, name) ==
    IF value.type = "object" /\ name \in DOMAIN value.fields
    THEN value.fields[name] ELSE Undefined

\* Array.isArray(value)
isArray(value) == value.type = "array"

\* truthy with every value passing.
truthyAlways(value) == TRUE

\* if (value): arrays and objects pass, null and undefined do not.
truthy(value) == value.type \notin {"undefined", "null"}

\* A settled promise of fetchApi: rejected when the request fails, the status
\* is not ok or the body is no JSON.
Rejected == [status |-> "rejected"]

Fulfilled(value) == [status |-> "fulfilled", value |-> value]

fulfilledWith(result, P(_)) == result.status = "fulfilled" /\ P(result.value)

maxDepth == 5

\* fetchAllFiles: the files of a listing and, below maxDepth, of its folders
\* with children; a listing that fails or is no array gives no file.  A
\* folder item carries the settled listing request of its key.
RECURSIVE fetchAllFiles(_, _)
RECURSIVE filesOfItems(_, _)
filesOfItems(items, depth) ==
    IF items = <<>> THEN <<>>
    ELSE LET item == Head(items)
         IN  (IF item.folder /\ item.hasChildren /\ item.key # ""
                    /\ item.key # "ATTACHMENTS"
              THEN fetchAllFiles(item.listing, depth + 1)
              ELSE IF ~item.folder /\ item.filename # "" THEN <<item>>
              ELSE <<>>) \o filesOfItems(Tail(items), depth)

fetchAllFiles(filesResponse, depth) ==
    IF depth > maxDepth THEN <<>>
    ELSE IF filesResponse.status = "rejected" THEN <<>>
    ELSE IF ~isArray(filesResponse.value) THEN <<>>
    ELSE filesOfItems(filesResponse.value.items, depth)

\* The eight requests of step 3 and the record fields each one feeds.
FanOut == {"insurance", "mortgages", "external", "actions", "ledger", "files",
           "notes", "activity"}

sectionsOf(fetch) ==
    CASE fetch = "insurance" -> {"insurance"}
      [] fetch = "mortgages" -> {"mortgages"}
      [] fetch = "external" -> {"externalPersonnel"}
      [] fetch = "actions" -> {"actionItems"}
      [] fetch = "ledger" -> {"ledger", "ledgerNotes", "ledgerInvoices"}
      [] fetch = "files" -> {"files"}
      [] fetch = "notes" -> {"notes"}
      [] fetch = "activity" -> {"activity"}

\* A field of the record, set under a condition.
field(cond, name, value) == IF cond THEN name :> value ELSE <<>>

\* contacts of fullDetails.propcontacts: the primary c, then the array cc.
contactsOf(propcontacts) ==
    (IF truthy(get(propcontacts, "c")) THEN <<[isPrimary |-> TRUE]>> ELSE <<>>)
        \o (IF isArray(get(propcontacts, "cc"))
            THEN [k \in DOMAIN get(propcontacts, "cc").items |-> [isPrimary |-> FALSE]]
            ELSE <<>>)

\* The record fetchClaimDetails returns: claimInfo is the first claim of the
\* search, details the body of step 2, settled the results of step 3 and
\* files what fetchAllFiles returned.
claimResultOf(claim, claimInfo, details, settled, files) ==
    LET insurance == get(get(settled["insurance"].value, "data"), "insurance")
        ledgerValue == settled["ledger"].value
        activity == get(get(settled["activity"].value, "data"), "activity")
    IN  [fileNumber |-> claim.fileNumber, claimId |-> claimInfo.id,
         claimUuid |-> claimInfo.uuid, claimDetails |-> claimInfo]
        @@ field(truthy(details), "fullClaimData", details)
        @@ field(truthy(details) /\ truthy(get(details, "propcontacts")),
                 "contacts", contactsOf(get(details, "propcontacts")))
        @@ field(truthy(details) /\ truthy(get(details, "personnel")),
                 "personnel", get(details, "personnel"))
        @@ field(truthy(details) /\ truthy(get(details, "phases")),
                 "phases", get(details, "phases"))
        @@ field(settled["insurance"].status = "fulfilled" /\ truthy(insurance),
                 "insurance", insurance)
        @@ field(fulfilledWith(settled["mortgages"], isArray),
                 "mortgages", settled["mortgages"].value)
        @@ field(fulfilledWith(settled["external"], isArray),
                 "externalPersonnel", settled["external"].value)
        @@ field(fulfilledWith(settled["actions"], isArray),
                 "actionItems", settled["actions"].value)
        @@ field(settled["ledger"].status = "fulfilled"
                     /\ truthy(get(ledgerValue, "ledger")),
                 "ledger", get(ledgerValue, "ledger"))
        @@ field(settled["ledger"].status = "fulfilled"
                     /\ truthy(get(ledgerValue, "ledger")),
                 "ledgerNotes",
                 IF truthy(get(ledgerValue, "notes"))
                 THEN get(ledgerValue, "notes") ELSE Arr(<<>>))
        @@ field(settled["ledger"].status = "fulfilled"
                     /\ truthy(get(ledgerValue, "ledger")),
                 "ledgerInvoices",
                 IF truthy(get(ledgerValue, "invoices"))
                 THEN get(ledgerValue, "invoices") ELSE Arr(<<>>))
        @@ field(Len(files) > 0, "files",
                 [k \in DOMAIN files |->
                    [title |-> files[k].title, filename |-> files[k].filename,
                     key |-> files[k].key, folder |-> FALSE,
                     downloadUrl |-> <<claimInfo.uuid, files[k].key>>]])
        @@ field(fulfilledWith(settled["notes"], isArray),
                 "notes", settled["notes"].value)
        @@ field(settled["activity"].status = "fulfilled" /\ isArray(activity),
                 "activity", activity)

\* fetchClaimDetails: `search` is the settled search request with its Claims
\* array as value, `fullDetails` the settled request of step 2, `settled` the
\* Promise.allSettled results of step 3, the one of files being the listing
\* request fetchAllFiles starts with.  The function throws when the search
\* fails or finds nothing and when step 2 fails.
fetchClaimDetails(claim, search, fullDetails, settled) ==
    IF \/ search.status = "rejected"
       \/ ~isArray(search.value) \/ search.value.items = <<>>
       \/ fullDetails.status = "rejected"
    THEN [threw |-> TRUE]
    ELSE [threw |-> FALSE,
          claimResult |->
              claimResultOf(claim, search.value.items[1], fullDetails.value,
                            settled, fetchAllFiles(settled["files"], 0))]

\* Responses of the server.  An object without the expected member, here an
\* error message, is what an endpoint answers in an unexpected shape.
Unexpected == Obj([message |-> "error"])

SomeItem == Obj([id |-> 1])

SomeFile(key) ==
    [folder |-> FALSE, filename |-> "a.pdf", key |-> key, title |-> "a"]

SomeFolder(key, listing) ==
    [folder |-> TRUE, hasChildren |-> TRUE, key |-> key, listing |-> listing]

FoundClaim == Fulfilled(Arr(<<[id |-> 1, uuid |-> "u"]>>))

SearchResponses == {Rejected, Fulfilled(Arr(<<>>)), FoundClaim}

FullDetails ==
    Fulfilled(Obj([personnel |-> Arr(<<SomeItem>>),
                   propcontacts |-> Obj([c |-> SomeItem])]))

DetailsResponses == {Rejected, Fulfilled(Null), FullDetails}

ListingResponses ==
    {Rejected, Fulfilled(Unexpected), Fulfilled(Arr(<<>>)),
     Fulfilled(Arr(<<SomeFile("f1")>>)),
     Fulfilled(Arr(<<SomeFolder("d1", Rejected)>>)),
     Fulfilled(Arr(<<SomeFile("f1"),
                     SomeFolder("d1", Fulfilled(Arr(<<SomeFile("f2")>>)))>>))}

\* What each request of step 3 is answered with when the claim has the data.
Found(fetch) ==
    CASE fetch = "insurance" ->
            Fulfilled(Obj([data |-> Obj([insurance |-> SomeItem])]))
      [] fetch \in {"mortgages", "external", "actions", "notes"} ->
            Fulfilled(Arr(<<SomeItem>>))
      [] fetch = "ledger" -> Fulfilled(Obj([ledger |-> Arr(<<SomeItem>>)]))
      [] fetch = "files" -> Fulfilled(Arr(<<SomeFile("f1")>>))
      [] fetch = "activity" ->
            Fulfilled(Obj([data |-> Obj([activity |-> Arr(<<SomeItem>>)])]))

\* The answers to a request of step 3: none, one of unexpected shape, the
\* data, and an empty list or a tree of folders where the endpoint lists.
FanOutResponses(fetch) ==
    {Rejected, Fulfilled(Unexpected), Found(fetch)}
        \cup (IF fetch = "mortgages" THEN {Fulfilled(Arr(<<>>))} ELSE {})
        \cup (IF fetch = "files" THEN ListingResponses ELSE {})
        \cup (IF fetch = "activity" THEN {Fulfilled(Obj([data |-> Unexpected]))}
              ELSE {})

AllFound == [fetch \in FanOut |-> Found(fetch)]

\* The results Promise.allSettled can hand to step 3.
FanOutSettled ==
    {[insurance |-> insurance, mortgages |-> mortgages, external |-> external,
      actions |-> actions, ledger |-> ledger, files |-> files, notes |-> notes,
      activity |-> activity] :
        insurance \in FanOutResponses("insurance"),
        mortgages \in FanOutResponses("mortgages"),
        external \in FanOutResponses("external"),
        actions \in FanOutResponses("actions"),
        ledger \in FanOutResponses("ledger"),
        files \in FanOutResponses("files"),
        notes \in FanOutResponses("notes"),
        activity \in FanOutResponses("activity")}

\* fetchClaimDetails settles with the server's answers: the record it returns,
\* or the error-tagged stub when it throws, is written to the claim's key.
FetchDetailsSettled(l, search, fullDetails, settled) ==
    /\ loops[l].pc = "fetch"
    /\ LET claim == loops[l].claims[loops[l].i + 1]
           result == fetchClaimDetails(claim, search, fullDetails, settled)
       IN  claimKeys' = saveClaimToStorage(claimKeys, loops[l].i,
                            IF result.threw THEN claimData(claim, "throws")
                            ELSE result.claimResult)
    /\ loops' = [loops EXCEPT ![l].pc = "saveClaim"]
    /\ UNCHANGED <<exportJob, exportComplete, exportProgress, exportError,
                   started, popupView, download>>

\* One export in test mode: the first claim of the CSV is fetched, whatever
\* the server answers to each request.
DetailsNext ==
    \/ started = 0 /\ ProcessCsv(CsvTwo, TRUE)
    \/ \E l \in LoopIds : JobSaved(l)
    \/ \E l \in LoopIds, settled \in FanOutSettled :
           FetchDetailsSettled(l, FoundClaim, FullDetails, settled)
    \/ \E l \in LoopIds, search \in SearchResponses, fullDetails \in DetailsResponses :
           FetchDetailsSettled(l, search, fullDetails, AllFound)
    \/ \E l \in LoopIds : ClaimSaved(l)
    \/ \E l \in LoopIds : UpdateCount(l)

DetailsSpec == Init /\ [][DetailsNext]_vars

----------------------------------------------------------------------------
(* Content script: fetchClaimDetails request by request                    *)

\* A promise that has not settled.
Pending == [status |-> "pending"]

\* A folder with children, as a listing shows it.
Folder(key) == [folder |-> TRUE, hasChildren |-> TRUE, key |-> key]

\* A folder without children.
EmptyFolder(key) == [folder |-> TRUE, hasChildren |-> FALSE, key |-> key]

\* The folders fetchAllFiles descends into.
descends(item) ==
    item.folder /\ item.hasChildren /\ item.key # "" /\ item.key # "ATTACHMENTS"

\* tooDeep with no limit.
tooDeepNever(depth) == FALSE

\* fetchAllFiles returns at once, without a request, beyond maxDepth.
tooDeep(depth) == depth > maxDepth

\* A call of fetchAllFiles whose listing request is out.
listingFrame(folderKey, depth) ==
    [folderKey |-> folderKey, depth |-> depth, rest |-> <<>>, allFiles |-> <<>>]

listingRequest(frame) == [folderKey |-> frame.folderKey, depth |-> frame.depth]

\* F of value, the value computed once.
once(value, F(_)) == CHOOSE result \in {F(v) : v \in {value}} : TRUE

\* An item of a listing is gone through: a file is collected.
pastItem(frame) ==
    [frame EXCEPT !.rest = Tail(@),
                  !.allFiles = IF ~Head(frame.rest).folder
                                    /\ Head(frame.rest).filename # ""
                               THEN Append(@, Head(frame.rest)) ELSE @]

\* forItems descending into a folder without the pause.
RECURSIVE forItemsUnpaced(_)
forItemsUnpaced(frame) ==
    once(frame, LAMBDA f :
        IF f.rest = <<>> THEN [returns |-> TRUE, frame |-> f, paused |-> FALSE]
        ELSE IF descends(Head(f.rest))
        THEN [returns |-> FALSE, frame |-> f, paused |-> FALSE]
        ELSE forItemsUnpaced(pastItem(f)))

\* The for loop of fetchAllFiles over the items left: it runs to its end
\* (returns) or to the pause before the descent into the folder at the head
\* of rest.
RECURSIVE forItems(_)
forItems(frame) ==
    once(frame, LAMBDA f :
        IF f.rest = <<>> THEN [returns |-> TRUE, frame |-> f, paused |-> FALSE]
        ELSE IF descends(Head(f.rest))
        THEN [returns |-> FALSE, frame |-> f, paused |-> TRUE]
        ELSE forItems(pastItem(f)))

Front(stack) == SubSeq(stack, 1, Len(stack) - 1)

Top(stack) == stack[Len(stack)]

\* The calls of fetchAllFiles on the stack run on: runWalk when the top call
\* goes through its items, returnFiles when the call above it has returned
\* files, descend when the top call calls fetchAllFiles for the folder at
\* the head of its rest.  The walk stops where a call waits: for the pause
\* (paused), for a listing (a request is issued), or at the end of the root
\* call (done).
RECURSIVE runWalk(_)
RECURSIVE returnFiles(_, _)
RECURSIVE descend(_)
runWalk(stack) ==
    once(stack, LAMBDA s :
        once(forItems(Top(s)), LAMBDA r :
            IF r.returns THEN returnFiles(Front(s), r.frame.allFiles)
            ELSE IF r.paused
            THEN [done |-> FALSE, stack |-> [s EXCEPT ![Len(s)] = r.frame],
                  paused |-> TRUE, issued |-> {}]
            ELSE descend([s EXCEPT ![Len(s)] = r.frame])))

returnFiles(stack, files) ==
    once(stack, LAMBDA s :
        once(files, LAMBDA folderFiles :
            IF s = <<>>
            THEN [done |-> TRUE, files |-> folderFiles, stack |-> <<>>,
                  paused |-> FALSE, issued |-> {}]
            ELSE runWalk([s EXCEPT ![Len(s)] =
                             [Top(s) EXCEPT !.rest = Tail(@),
                                            !.allFiles = @ \o folderFiles]])))

descend(stack) ==
    once(stack, LAMBDA s :
        once(listingFrame(Head(Top(s).rest).key, Top(s).depth + 1), LAMBDA callee :
            IF tooDeep(callee.depth) THEN returnFiles(s, <<>>)
            ELSE [done |-> FALSE, stack |-> Append(s, callee), paused |-> FALSE,
                  issued |-> {listingRequest(callee)}]))

\* Promise.allSettled resolving at the first rejection.
allSettledOrRejected(settled) ==
    \/ \A fetch \in FanOut : settled[fetch] # Pending
    \/ \E fetch \in FanOut : settled[fetch] = Rejected

\* Promise.allSettled resolves: every promise of step 3 has settled.
allSettled(settled) == \A fetch \in FanOut : settled[fetch] # Pending

\* fetchClaimDetails throws: the error-tagged stub is written to the claim's
\* key.
CallThrows(l) ==
    /\ claimKeys' = saveClaimToStorage(claimKeys, loops[l].i,
                        claimData(loops[l].claims[loops[l].i + 1], "throws"))
    /\ loops' = [loops EXCEPT ![l].pc = "saveClaim", ![l].call = NewCall]

\* Step 3 goes on with `call`: when Promise.allSettled resolves the record
\* is built, returned and written to the claim's key.
FanOutGoesOn(l, call) ==
    IF allSettled(call.settled)
    THEN /\ claimKeys' =
                saveClaimToStorage(claimKeys, loops[l].i,
                    claimResultOf(loops[l].claims[loops[l].i + 1], call.claimInfo,
                                  call.fullDetails, call.settled,
                                  IF call.settled["files"].status = "fulfilled"
                                  THEN call.settled["files"].value.items
                                  ELSE <<>>))
         /\ loops' = [loops EXCEPT ![l].pc = "saveClaim", ![l].call = NewCall]
    ELSE /\ loops' = [loops EXCEPT ![l].call = call]
         /\ UNCHANGED claimKeys

\* The call with the listings `answered` and the walk where `walk` left it.
walked(call, answered, walk) ==
    [call EXCEPT !.stack = walk.stack,
                 !.paused = walk.paused,
                 !.listings = (@ \ answered) \cup walk.issued,
                 !.settled = IF walk.done
                             THEN [@ EXCEPT !["files"] = Fulfilled(Arr(walk.files))]
                             ELSE @]

\* SearchAnswered going on to step 2 whatever the search returns.
SearchAnsweredAnyway(l, search) ==
    /\ loops[l].pc = "fetch"
    /\ loops[l].call.pc = "search"
    /\ loops' = [loops EXCEPT ![l].call =
           [pc |-> "details", inFlight |-> {"details"}, listings |-> {},
            claimInfo |-> IF search.status = "fulfilled" /\ search.value.items # <<>>
                          THEN search.value.items[1] ELSE [id |-> 0, uuid |-> ""]]]
    /\ UNCHANGED <<claimKeys, exportJob, exportComplete, exportProgress, exportError,
                   started, popupView, download>>

\* Step 1: the search is answered.  Without a claim in the answer the call
\* throws; with one, the request of step 2 is issued.
SearchAnswered(l, search) ==
    /\ loops[l].pc = "fetch"
    /\ loops[l].call.pc = "search"
    /\ IF search.status = "rejected" \/ ~isArray(search.value)
            \/ search.value.items = <<>>
       THEN CallThrows(l)
       ELSE /\ loops' = [loops EXCEPT ![l].call =
                   [pc |-> "details", inFlight |-> {"details"}, listings |-> {},
                    claimInfo |-> search.value.items[1]]]
            /\ UNCHANGED claimKeys
    /\ UNCHANGED <<exportJob, exportComplete, exportProgress, exportError,
                   started, popupView, download>>

\* Step 2: the details request is answered.  When it fails the call throws;
\* else the eight promises of step 3 are made: seven requests and
\* fetchAllFiles, which issues the listing of the root folder.
DetailsAnswered(l, fullDetails) ==
    /\ loops[l].pc = "fetch"
    /\ loops[l].call.pc = "details"
    /\ IF fullDetails.status = "rejected"
       THEN CallThrows(l)
       ELSE /\ loops' = [loops EXCEPT ![l].call =
                   [pc |-> "fanOut",
                    inFlight |-> FanOut \ {"files"},
                    listings |-> {listingRequest(listingFrame("", 0))},
                    claimInfo |-> loops[l].call.claimInfo,
                    fullDetails |-> fullDetails.value,
                    settled |-> [fetch \in FanOut |-> Pending],
                    stack |-> <<listingFrame("", 0)>>,
                    paused |-> FALSE]]
            /\ UNCHANGED claimKeys
    /\ UNCHANGED <<exportJob, exportComplete, exportProgress, exportError,
                   started, popupView, download>>

\* Step 3: one of the seven requests is answered.
FanOutAnswered(l, fetch, response) ==
    /\ loops[l].pc = "fetch"
    /\ loops[l].call.pc = "fanOut"
    /\ fetch \in loops[l].call.inFlight
    /\ \E call \in {[loops[l].call EXCEPT !.inFlight = @ \ {fetch},
                                           !.settled[fetch] = response]} :
           FanOutGoesOn(l, call)
    /\ UNCHANGED <<exportJob, exportComplete, exportProgress, exportError,
                   started, popupView, download>>

\* ListingAnswered with a failed listing ending the whole walk without a
\* file.
ListingAnsweredAborting(l, request, filesResponse) ==
    /\ loops[l].pc = "fetch"
    /\ loops[l].call.pc = "fanOut"
    /\ request \in loops[l].call.listings
    /\ request = listingRequest(Top(loops[l].call.stack))
    /\ LET stack == loops[l].call.stack
           walk == IF filesResponse.status = "rejected"
                        \/ ~isArray(filesResponse.value)
                   THEN returnFiles(<<>>, <<>>)
                   ELSE runWalk([stack EXCEPT ![Len(stack)].rest =
                                     filesResponse.value.items])
       IN  \E call \in {once(walk, LAMBDA w : walked(loops[l].call, {request}, w))} :
               FanOutGoesOn(l, call)
    /\ UNCHANGED <<exportJob, exportComplete, exportProgress, exportError,
                   started, popupView, download>>

\* A folder listing is answered: the call of fetchAllFiles that asked for it
\* returns no file when the request failed or the answer is no array, and
\* goes through the items otherwise.
ListingAnswered(l, request, filesResponse) ==
    /\ loops[l].pc = "fetch"
    /\ loops[l].call.pc = "fanOut"
    /\ request \in loops[l].call.listings
    /\ request = listingRequest(Top(loops[l].call.stack))
    /\ LET stack == loops[l].call.stack
           walk == IF filesResponse.status = "rejected"
                        \/ ~isArray(filesResponse.value)
                   THEN returnFiles(Front(stack), <<>>)
                   ELSE runWalk([stack EXCEPT ![Len(stack)].rest =
                                     filesResponse.value.items])
       IN  \E call \in {once(walk, LAMBDA w : walked(loops[l].call, {request}, w))} :
               FanOutGoesOn(l, call)
    /\ UNCHANGED <<exportJob, exportComplete, exportProgress, exportError,
                   started, popupView, download>>

\* The pause of 200 ms before a descent ends: fetchAllFiles is called for
\* the folder.
WalkSleepDone(l) ==
    /\ loops[l].pc = "fetch"
    /\ loops[l].call.pc = "fanOut"
    /\ loops[l].call.paused
    /\ \E call \in {once(descend(loops[l].call.stack),
                          LAMBDA w : walked(loops[l].call, {}, w))} :
           FanOutGoesOn(l, call)
    /\ UNCHANGED <<exportJob, exportComplete, exportProgress, exportError,
                   started, popupView, download>>

\* One export in test mode, request by request: the search and the details
\* request fail or succeed, each of the seven requests of step 3 fails or
\* brings its data, in any order; the root folder has a file, or a folder
\* and a file, or a file, two folders and a file, or its listing fails, and
\* a folder has a file or its listing fails.
ShallowListings(depth) ==
    IF depth = 0
    THEN {Rejected, Fulfilled(Arr(<<SomeFile("f1")>>)),
          Fulfilled(Arr(<<Folder("d1"), SomeFile("f1")>>)),
          Fulfilled(Arr(<<SomeFile("f0"), Folder("d1"), Folder("d2"),
                          SomeFile("f1")>>))}
    ELSE {Rejected, Fulfilled(Arr(<<SomeFile("f2")>>))}

RequestsNext ==
    \/ started = 0 /\ ProcessCsv(CsvTwo, TRUE)
    \/ \E l \in LoopIds : JobSaved(l)
    \/ \E l \in LoopIds, search \in SearchResponses : SearchAnswered(l, search)
    \/ \E l \in LoopIds, fullDetails \in DetailsResponses :
           DetailsAnswered(l, fullDetails)
    \/ \E l \in LoopIds, fetch \in FanOut \ {"files"} :
           \E response \in {Rejected, Found(fetch)} :
               FanOutAnswered(l, fetch, response)
    \/ \E l \in LoopIds : \E request \in loops[l].call.listings :
           \E filesResponse \in ShallowListings(request.depth) :
               ListingAnswered(l, request, filesResponse)
    \/ \E l \in LoopIds : WalkSleepDone(l)
    \/ \E l \in LoopIds : ClaimSaved(l)
    \/ \E l \in LoopIds : UpdateCount(l)

RequestsSpec == Init /\ [][RequestsNext]_vars

\* The file walk of one claim on any folder tree: every listing is answered
\* with one of the answers below, so a folder may list itself and a tree
\* may have no end.  Down to depth MaxBranching a listing may hold two
\* folders; below, one.  The seven other requests of step 3 have been
\* answered when the first listing is.
MaxBranching == 2

WalkListings(depth) ==
    {Rejected,
     Fulfilled(Arr(<<SomeFile("f1")>>)),
     Fulfilled(Arr(<<Folder("d1")>>))}
        \cup (IF depth <= MaxBranching
              THEN {Fulfilled(Unexpected),
                    Fulfilled(Arr(<<>>)),
                    Fulfilled(Arr(<<Folder("d1"), SomeFile("f1")>>)),
                    Fulfilled(Arr(<<Folder("d1"), Folder("d2")>>)),
                    Fulfilled(Arr(<<Folder("ATTACHMENTS"), EmptyFolder("e1"),
                                    SomeFile("f1")>>))}
              ELSE {})

WalkNext ==
    \/ started = 0 /\ ProcessCsv(CsvTwo, TRUE)
    \/ \E l \in LoopIds : JobSaved(l)
    \/ \E l \in LoopIds : SearchAnswered(l, FoundClaim)
    \/ \E l \in LoopIds : DetailsAnswered(l, FullDetails)
    \/ \E l \in LoopIds, fetch \in FanOut \ {"files"} :
           FanOutAnswered(l, fetch, Found(fetch))
    \/ \E l \in LoopIds : \E request \in loops[l].call.listings :
           \E filesResponse \in WalkListings(request.depth) :
               /\ loops[l].call.inFlight = {}
               /\ ListingAnswered(l, request, filesResponse)
    \/ \E l \in LoopIds : loops[l].call.inFlight = {} /\ WalkSleepDone(l)
    \/ \E l \in LoopIds : ClaimSaved(l)
    \/ \E l \in LoopIds : UpdateCount(l)

\* Every request is answered and every timer fires: while a step of the
\* export is due, one is taken.
WalkFairness ==
    WF_vars(\E l \in LoopIds :
                \/ JobSaved(l)
                \/ SearchAnswered(l, FoundClaim)
                \/ DetailsAnswered(l, FullDetails)
                \/ \E fetch \in FanOut \ {"files"} :
                       FanOutAnswered(l, fetch, Found(fetch))
                \/ \E request \in loops[l].call.listings :
                       \E filesResponse \in WalkListings(request.depth) :
                           /\ loops[l].call.inFlight = {}
                           /\ ListingAnswered(l, request, filesResponse)
                \/ loops[l].call.inFlight = {} /\ WalkSleepDone(l)
                \/ ClaimSaved(l)
                \/ UpdateCount(l))

WalkSpec == Init /\ [][WalkNext]_vars /\ WalkFairness

----------------------------------------------------------------------------
(* The content script under any sequence of requests: processCsv with any   *)
(* CSV and resumeExport arrive whatever the popup shows, also while a loop  *)
(* runs and when nothing is stored.  The popup is opened and closed at any  *)
(* time, so every notification is delivered in some runs and finds no       *)
(* receiver in others.  Every fetch succeeds here; failed fetches are in    *)
(* Spec and ExportSpec.                                                     *)

\* A processCsv request arrives.
ProcessCsvMessage(csvText, testMode) ==
    processCsvAndFetchData(csvText, testMode, popupView)

\* A resumeExport request arrives.
ResumeMessage == resumeExport(popupView)

ListenerNext ==
    \/ \E csvText \in CsvTexts, testMode \in BOOLEAN :
           ProcessCsvMessage(csvText, testMode)
    \/ ResumeMessage
    \/ \E l \in LoopIds : JobSaved(l)
    \/ \E l \in LoopIds : ResumeGot(l)
    \/ \E l \in LoopIds : FetchSettled(l, "ok")
    \/ \E l \in LoopIds : ClaimSaved(l)
    \/ \E l \in LoopIds : UpdateCount(l)
    \/ \E l \in LoopIds : SleepDone(l)
    \/ \E timeSinceUpdate \in UpdateAges : PopupOpen(timeSinceUpdate)
    \/ PopupClose
    \/ ErrorDismissed

ListenerSpec == Init /\ [][ListenerNext]_vars

----------------------------------------------------------------------------
(* The CSV reader: the first processCsv request of a page, with any of the  *)
(* files in ParseCsvTexts, up to the first progress update.                 *)

ParseNext ==
    \/ started = 0 /\ \E csvText \in ParseCsvTexts :
                           ProcessCsvMessage(csvText, FALSE)
    \/ \E l \in LoopIds : JobSaved(l)

ParseSpec == Init /\ [][ParseNext]_vars

----------------------------------------------------------------------------
(* Two exports of different CSV files: the popup, opened on a job whose     *)
(* progress is stale, starts over and starts the export of another file     *)
(* while the loop of the first export is still running in the page; it      *)
(* downloads, and starts over while a download is under way.                *)

\* One claim: 8.
CsvEight == <<"f","i","l","e","#","\n","8">>

RestartNext ==
    \/ \E csvText \in {CsvTwo, CsvEight} : ProcessCsv(csvText, FALSE)
    \/ \E l \in LoopIds : JobSaved(l)
    \/ \E l \in LoopIds : FetchSettled(l, "ok")
    \/ \E l \in LoopIds : ClaimSaved(l)
    \/ \E l \in LoopIds : UpdateCount(l)
    \/ \E l \in LoopIds : SleepDone(l)
    \/ \E timeSinceUpdate \in UpdateAges : PopupOpen(timeSinceUpdate)
    \/ PopupClose
    \/ startOver
    \/ \E isPartial \in BOOLEAN : DownloadClick(isPartial)
    \/ DownloadGotJob
    \/ DownloadBatch
    \/ DownloadBreathe

RestartSpec == Init /\ [][RestartNext]_vars

----------------------------------------------------------------------------
(* Properties                                                              *)

\* completedCount of the persisted job, 0 without one.
persistedCount == IF exportJob = NoJob THEN 0 ELSE exportJob.completedCount

\* Driver invocations inside the per-claim loop.
LoopsRunning == {l \in LoopIds : InLoop(l)}

\* C1: in every reachable state the per-claim keys present in the store are
\* exactly the indices 0..completedCount-1 of the persisted job.
C1_KeysAreCompletedPrefix == DOMAIN claimKeys = Indices(persistedCount)

\* C3: the record of index i is in the store before completedCount passes i:
\* in no reachable state is completedCount above i while key i is absent.
C3_RecordBeforeCount ==
    \A i \in Indices(persistedCount) : i \in DOMAIN claimKeys

\* C8: while a job lasts its completedCount never decreases and every change
\* of it is a step from k to k+1.
C8_CountStepsByOne ==
    [][(exportJob # NoJob /\ exportJob' # NoJob
            /\ exportJob'.startedAt = exportJob.startedAt)
        => exportJob'.completedCount \in
               {exportJob.completedCount, exportJob.completedCount + 1}]_vars

\* C9: whatever processCsv and resumeExport requests are made, at most one
\* per-claim loop runs, and no two fetches for different indices are in
\* flight together.
C9_OneLoopInFlight ==
    /\ Cardinality(LoopsRunning) <= 1
    /\ \A l1, l2 \in LoopIds :
           (loops[l1].pc = "fetch" /\ loops[l2].pc = "fetch")
               => loops[l1].i = loops[l2].i

\* C10: once the user has started over, and once a new export has begun,
\* neither the ledger nor any per-claim record of the previous job is left in
\* the store.
C10_PreviousJobRemoved ==
    [][/\ startOver => (exportJob' = NoJob /\ claimKeys' = <<>>)
       /\ (started' = started + 1 /\ exportJob' # NoJob
              /\ exportJob'.startedAt = started')
          => claimKeys' = <<>>]_vars

\* The record a failed fetch of invocation l's current claim leaves behind.
errorStub(l) ==
    [fileNumber |-> loops[l].claims[loops[l].i + 1].fileNumber, error |-> TRUE]

\* C2: when the fetch of one claim fails, the error-tagged record with the
\* claim's identifier is stored at the claim's index and the job does not
\* fail; the loop then advances completedCount to that index plus one and
\* goes on with the next claim, or finishes after the last one.
C2_FetchFailureIsolated ==
    [][\A l \in LoopIds :
        /\ FetchSettled(l, "throws")
               => /\ claimKeys' = (loops[l].i :> errorStub(l)) @@ claimKeys
                  /\ exportError' = exportError
                  /\ popupView' = popupView
                  /\ loops'[l].pc = "saveClaim"
        /\ (loops[l].pc = "saveClaim" /\ loops'[l].pc \notin {"saveClaim", "killed"})
               => /\ loops'[l].rmw = [pending |-> TRUE, job |-> exportJob,
                                      idx |-> loops[l].i + 1]
                  /\ exportError' = exportError
                  /\ IF loops[l].i < Len(loops[l].claims) - 1
                     THEN loops'[l].pc = "sleep" /\ loops'[l].i = loops[l].i
                     ELSE loops'[l].pc = "idle" /\ exportComplete'
        /\ (loops[l].rmw.pending /\ ~loops'[l].rmw.pending /\ loops'[l].pc # "killed"
                /\ loops[l].rmw.job # NoJob)
               => exportJob' = [loops[l].rmw.job EXCEPT
                                    !.completedCount = loops[l].rmw.idx]
        /\ (loops[l].pc = "sleep" /\ loops'[l].pc \notin {"sleep", "killed"})
               => loops'[l].pc = "fetch" /\ loops'[l].i = loops[l].i + 1]_vars

\* C2 happens: the first claim's fetch has failed, its stub is stored, the
\* count is 1, no error is raised and the same loop is fetching the second.
C2_Witness ==
    /\ started = 1
    /\ loops[1].pc = "fetch" /\ loops[1].i = 1
    /\ 0 \in DOMAIN claimKeys /\ claimKeys[0].error
    /\ exportJob # NoJob /\ exportJob.completedCount = 1
    /\ exportError = NoError

\* C4: a resume reads the persisted job and, with completedCount = k in it,
\* re-enters the per-claim loop at index k: the first fetch it issues is for
\* index k, it issues none for an index below k, and none at all when k is
\* the job's total.
C4_ResumeAtCompletedCount ==
    [][\A l \in LoopIds :
        /\ (loops[l].pc # "getJob" /\ loops'[l].pc = "getJob")
               => loops'[l].got = [pending |-> TRUE, job |-> exportJob]
        /\ (loops[l].pc = "getJob" /\ loops'[l].pc \notin {"getJob", "killed"}
                /\ loops[l].got.job # NoJob)
               => LET k == loops[l].got.job.completedCount
                  IN  IF k < loops[l].got.job.total
                      THEN /\ loops'[l].pc = "fetch"
                           /\ loops'[l].i = k
                           /\ loops'[l].startFrom = k
                      ELSE loops'[l].pc = "idle"
        /\ (loops'[l].pc = "fetch" /\ ~(loops[l].pc = "fetch" /\ loops[l].i = loops'[l].i))
               => loops'[l].i >= loops'[l].startFrom]_vars

\* C4 happens: the page was closed with one record checkpointed, and the
\* resumed invocation is fetching index 1.
C4_Witness ==
    \E l, dead \in LoopIds :
        /\ loops[dead].pc = "killed"
        /\ loops[l].pc = "fetch" /\ loops[l].startFrom = 1 /\ loops[l].i = 1
        /\ exportJob # NoJob /\ exportJob.completedCount = 1

\* Invocation l issues the fetch for index i in this step.
FetchIssued(l, i) ==
    /\ loops'[l].pc = "fetch" /\ loops'[l].i = i
    /\ ~(loops[l].pc = "fetch" /\ loops[l].i = i)

\* Invocation l writes the record of index i in this step.
RecordWritten(l, i) ==
    loops[l].pc = "fetch" /\ loops[l].i = i /\ loops'[l].pc = "saveClaim"

\* C5: within one job each per-claim key is written once: after the record
\* of index i is stored, the claim is not fetched again and the key is not
\* written again.
C5_WrittenOncePerJob ==
    [][\A i \in DOMAIN claimKeys : \A l \in LoopIds :
           ~FetchIssued(l, i) /\ ~RecordWritten(l, i)]_vars

\* The job is finished: marked complete, every identifier counted, every
\* record in the store.
JobDone ==
    /\ exportJob # NoJob
    /\ exportComplete
    /\ exportJob.completedCount = exportJob.total
    /\ DOMAIN claimKeys = Indices(exportJob.total)

\* The job has stopped short of the end: only a resume can take it further.
NeedsResume == exportJob # NoJob /\ PageIdle /\ ~JobDone

\* C6: a job whose every interruption is followed by a resume ends finished,
\* with completedCount = total and all records stored, and no record stored
\* before an interruption is lost.
C6_CrashSafe ==
    /\ [][\A i \in DOMAIN claimKeys :
              i \in DOMAIN claimKeys' /\ claimKeys'[i] = claimKeys[i]]_vars
    /\ [](NeedsResume => <>~NeedsResume) => [](exportJob # NoJob => <>[]JobDone)

\* The page has not been closed during the export.
Uninterrupted == \A l \in LoopIds : loops[l].pc # "killed"

\* The records of the indices 0..n-1 in index order.
recordsInOrder(n) == [k \in 1..n |-> claimKeys[k - 1]]

\* A file assembled from a job whose every identifier is counted.
FullDocumentSaved ==
    /\ download.pc = "saved"
    /\ exportJob # NoJob
    /\ download.count = Len(exportJob.fileNumbers)

\* C7: an export of N identifiers that is not interrupted ends marked
\* complete with completedCount = N; the document assembled then has N claim
\* entries, the i-th one for the i-th identifier, and the entry of a claim
\* whose fetch failed bears the error field.
C7_UninterruptedRunCompletes ==
    /\ [](exportJob # NoJob
             => <>(~Uninterrupted
                      \/ /\ exportComplete
                         /\ exportJob.completedCount = Len(exportJob.fileNumbers)))
    /\ []((Uninterrupted /\ FullDocumentSaved)
             => LET N == Len(exportJob.fileNumbers)
                    entries == documentClaims(download.blobParts)
                IN  /\ Len(entries) = N
                    /\ DOMAIN claimKeys = Indices(N)
                    /\ entries = recordsInOrder(N)
                    /\ \A k \in 1..N : entries[k].fileNumber = exportJob.fileNumbers[k]
                    /\ documentInfo(download.blobParts).totalClaims = N)
    /\ [][Uninterrupted'
             => /\ \A l \in LoopIds :
                       /\ FetchSettled(l, "throws")
                              => /\ loops[l].i \in DOMAIN claimKeys'
                                 /\ claimKeys'[loops[l].i].error
                       /\ FetchSettled(l, "ok")
                              => /\ loops[l].i \in DOMAIN claimKeys'
                                 /\ ~claimKeys'[loops[l].i].error
                /\ \A i \in DOMAIN claimKeys :
                       i \in DOMAIN claimKeys' /\ claimKeys'[i] = claimKeys[i]]_vars

\* C7 happens: no interruption, both claims counted, the first one's fetch
\* failed, and the saved document has the two entries.
C7_Witness ==
    /\ Uninterrupted
    /\ FullDocumentSaved
    /\ exportComplete
    /\ exportJob.total = 2
    /\ Len(documentClaims(download.blobParts)) = 2
    /\ documentClaims(download.blobParts)[1].error
    /\ ~documentClaims(download.blobParts)[2].error

\* The CSV files of the three kinds that do not parse, with the message each
\* is refused with: fewer than two rows, no identifier column, no identifier.
RefusedCsv ==
    (CsvHeaderOnly :> ErrEmptyOrInvalid) @@ (CsvBad :> ErrMissingColumn)
        @@ (CsvNoIds :> ErrNoClaims)

\* C11: a processCsv request whose CSV does not parse ends with the error in
\* the store and shown by an open popup; it starts no loop, writes no job,
\* and leaves the stored job and per-claim records as they were, so that
\* they can still be resumed.
C11_ParseFailureAborts ==
    [][\A csvText \in DOMAIN RefusedCsv, testMode \in BOOLEAN :
           ProcessCsvMessage(csvText, testMode)
               => /\ exportError' = RefusedCsv[csvText]
                  /\ popupView # "closed" => popupView' = "error"
                  /\ loops' = loops /\ started' = started
                  /\ exportJob' = exportJob
                  /\ claimKeys' = claimKeys]_vars

\* C11 happens: a job with a checkpointed record is in the store when a CSV
\* without identifier column has been refused.
C11_Witness ==
    /\ exportError = ErrMissingColumn
    /\ exportJob # NoJob /\ exportJob.completedCount = 1
    /\ 0 \in DOMAIN claimKeys

\* C12: a resume request that finds no job in the store ends with the error
\* in the store and shown by an open popup; the invocation ends without a
\* fetch, and neither a per-claim key nor the job is written.
C12_ResumeWithoutJobFails ==
    [][/\ (ResumeMessage /\ exportJob = NoJob)
              => loops'[started'].got = [pending |-> TRUE, job |-> NoJob]
       /\ \A l \in LoopIds :
              (loops[l].pc = "getJob" /\ loops[l].got.job = NoJob
                   /\ loops'[l].pc \notin {"getJob", "killed"})
                  => /\ exportError' = ErrNoJob
                     /\ popupView # "closed" => popupView' = "error"
                     /\ loops'[l] = IdleLoop
                     /\ claimKeys' = claimKeys
                     /\ exportJob' = exportJob]_vars

\* C12 happens: a resume was requested on an empty store and has failed.
C12_Witness ==
    /\ exportError = ErrNoJob
    /\ exportJob = NoJob
    /\ claimKeys = <<>>
    /\ started = 1 /\ loops[1] = IdleLoop

\* C13: the exportInfo of a saved file has totalClaims = the completedCount
\* the assembler read; a partial download adds partial: true and
\* originalTotal = the job's total, a full download has none of partial,
\* originalTotal and note.
C13_FooterFields ==
    download.pc = "saved" =>
        LET info == documentInfo(download.blobParts)
        IN  /\ info.totalClaims = download.count
            /\ download.count \in 1..exportJob.completedCount
            /\ IF download.isPartial
               THEN /\ {"partial", "originalTotal"} \subseteq DOMAIN info
                    /\ info.partial = TRUE
                    /\ info.originalTotal = exportJob.total
               ELSE DOMAIN info \cap {"partial", "originalTotal", "note"} = {}

\* C13 happens: a partial download of 1 of 2 claims has been saved.
C13_Witness ==
    /\ download.pc = "saved"
    /\ download.isPartial
    /\ download.count = 1 /\ exportJob.total = 2

\* C14: the claims array of a saved file holds the records of the keys
\* 0..completedCount-1, each once, in ascending order, with one separator
\* between two entries and none elsewhere, whatever completedCount is
\* against the batch size: what one read of all the keys gives.
C14_BatchedAssemblyInOrder ==
    download.pc = "saved" =>
        /\ download.count = exportJob.completedCount
        /\ documentClaims(download.blobParts) = recordsInOrder(download.count)
        /\ Len(concat(download.blobParts)) = 2 * download.count + 1

\* C14 happens: a file with one claim more than two batches hold has been
\* saved from three batch reads.
C14_Witness ==
    /\ download.pc = "saved"
    /\ download.count = 2 * LOAD_BATCH_SIZE + 1
    /\ Len(download.blobParts) = 5

\* The record stored for the claim fetchClaimDetails returned normally for.
detailed(k) ==
    k \in DOMAIN claimKeys /\ "claimId" \in DOMAIN claimKeys[k]

\* The answer to a request of step 3 has the shape the endpoint is expected
\* to answer in: a list where it lists, an object with the member where it
\* describes.
expectedShape(fetch, value) ==
    CASE fetch \in {"mortgages", "external", "actions", "notes", "files"} ->
            isArray(value)
      [] fetch = "insurance" -> get(get(value, "data"), "insurance").type = "object"
      [] fetch = "ledger" -> get(value, "ledger").type \in {"object", "array"}
      [] fetch = "activity" -> isArray(get(get(value, "data"), "activity"))

answered(result, fetch) ==
    result.status = "fulfilled" /\ expectedShape(fetch, result.value)

\* The record fetchClaimDetails returns normally for the claim invocation l
\* is fetching satisfies P, whatever step 3's requests are answered with.
whateverAnswered(l, P(_, _)) ==
    loops[l].pc = "fetch" =>
        \A fullDetails \in DetailsResponses \ {Rejected}, settled \in FanOutSettled :
            LET result == fetchClaimDetails(loops[l].claims[loops[l].i + 1],
                                            FoundClaim, fullDetails, settled)
            IN  ~result.threw /\ P(result.claimResult, settled)

\* The sections as C15 states them: those of the requests answered in the
\* expected shape, and no others.
sectionsAsAnswered(record, settled, fetches) ==
    \A fetch \in fetches :
        IF answered(settled[fetch], fetch)
        THEN sectionsOf(fetch) \subseteq DOMAIN record
        ELSE sectionsOf(fetch) \cap DOMAIN record = {}

\* The same with the files section there only when a file was listed.
sectionsAsFound(record, settled) ==
    /\ sectionsAsAnswered(record, settled, FanOut \ {"files"})
    /\ "files" \in DOMAIN record
           <=> /\ answered(settled["files"], "files")
               /\ fetchAllFiles(settled["files"], 0) # <<>>

\* C15 as stated: whichever of the eight requests of step 3 fail or are
\* answered in an unexpected shape, the record has no error field, lacks
\* the sections of exactly those requests and has the sections of all the
\* others.
C15_FanOutFailuresOmitted ==
    \A l \in LoopIds :
        whateverAnswered(l, LAMBDA record, settled :
            "error" \notin DOMAIN record
                /\ sectionsAsAnswered(record, settled, FanOut))

\* C15 amended: whichever of the eight requests of step 3 fail or are
\* answered in an unexpected shape, the record has no error field, lacks the
\* sections of those requests and has the sections of all the others, save
\* that the files section is also left out when the listing, with the
\* folders below it, yields no file.
C15_FanOutFailuresOmittedButEmptyFiles ==
    /\ \A l \in LoopIds :
        whateverAnswered(l, LAMBDA record, settled :
            "error" \notin DOMAIN record /\ sectionsAsFound(record, settled))
    /\ \A k \in DOMAIN claimKeys : detailed(k) => "error" \notin DOMAIN claimKeys[k]

\* C15 happens: a record is stored whose mortgages request failed while the
\* notes and the files were fetched.
C15_Witness ==
    /\ detailed(0)
    /\ "mortgages" \notin DOMAIN claimKeys[0]
    /\ {"notes", "files", "insurance"} \subseteq DOMAIN claimKeys[0]
    /\ "error" \notin DOMAIN claimKeys[0]

\* The content script with safeSendMessage doing nothing: what each step of
\* invocation l does to the store and to the invocation, told from the store
\* and the invocation alone.
unheardLoop(l, claimsToProcess, startFrom) ==
    IF startFrom < Len(claimsToProcess)
    THEN /\ exportProgress' =
                saveProgress(startFrom + 1, Len(claimsToProcess), "Processing")
         /\ loops' = [loops EXCEPT ![l] =
                [IdleLoop EXCEPT !.pc = "fetch", !.claims = claimsToProcess,
                                 !.i = startFrom, !.startFrom = startFrom]]
         /\ UNCHANGED <<exportComplete, exportError>>
    ELSE /\ exportProgress' = NoProgress
         /\ exportComplete' = TRUE
         /\ loops' = [loops EXCEPT ![l] = IdleLoop]
         /\ UNCHANGED exportError

unheardStep(l) ==
    /\ UNCHANGED started
    /\ IF loops[l].rmw.pending
       THEN /\ exportJob' =
                   IF loops[l].rmw.job # NoJob
                   THEN [loops[l].rmw.job EXCEPT !.completedCount = loops[l].rmw.idx]
                   ELSE exportJob
            /\ loops' = [loops EXCEPT ![l].rmw = NoRead]
            /\ UNCHANGED <<claimKeys, exportComplete, exportProgress, exportError>>
       ELSE CASE loops[l].pc = "saveJob" ->
                    /\ unheardLoop(l, loops[l].claims, 0)
                    /\ UNCHANGED <<exportJob, claimKeys>>
              [] loops[l].pc = "getJob" ->
                    /\ IF loops[l].got.job = NoJob
                       THEN /\ exportError' = ErrNoJob
                            /\ exportProgress' = NoProgress
                            /\ loops' = [loops EXCEPT ![l] = IdleLoop]
                            /\ UNCHANGED exportComplete
                       ELSE unheardLoop(l,
                                [k \in DOMAIN loops[l].got.job.fileNumbers |->
                                    [fileNumber |-> loops[l].got.job.fileNumbers[k],
                                     rowIndex |-> k - 1]],
                                loops[l].got.job.completedCount)
                    /\ UNCHANGED <<exportJob, claimKeys>>
              [] loops[l].pc = "fetch" ->
                    /\ \E outcome \in FetchOutcomes :
                           claimKeys' = saveClaimToStorage(claimKeys, loops[l].i,
                               claimData(loops[l].claims[loops[l].i + 1], outcome))
                    /\ loops' = [loops EXCEPT ![l].pc = "saveClaim"]
                    /\ UNCHANGED <<exportJob, exportComplete, exportProgress,
                                   exportError>>
              [] loops[l].pc = "saveClaim" ->
                    /\ LET read == [pending |-> TRUE, job |-> exportJob,
                                    idx |-> loops[l].i + 1]
                       IN  IF loops[l].i < Len(loops[l].claims) - 1
                           THEN /\ loops' = [loops EXCEPT ![l].pc = "sleep",
                                                          ![l].rmw = read]
                                /\ UNCHANGED <<exportComplete, exportProgress>>
                           ELSE /\ exportProgress' = NoProgress
                                /\ exportComplete' = TRUE
                                /\ loops' = [loops EXCEPT ![l] =
                                       [IdleLoop EXCEPT !.rmw = read]]
                    /\ UNCHANGED <<exportJob, claimKeys, exportError>>
              [] loops[l].pc = "sleep" ->
                    /\ exportProgress' = saveProgress(loops[l].i + 2,
                           Len(loops[l].claims), "Processing")
                    /\ loops' = [loops EXCEPT ![l].pc = "fetch",
                                              ![l].i = loops[l].i + 1]
                    /\ UNCHANGED <<exportJob, claimKeys, exportComplete,
                                   exportError>>
              [] OTHER -> FALSE

\* A step of invocation l.
LoopStep(l) ==
    \/ JobSaved(l)
    \/ ResumeGot(l)
    \/ \E outcome \in FetchOutcomes : FetchSettled(l, outcome)
    \/ ClaimSaved(l)
    \/ UpdateCount(l)
    \/ SleepDone(l)

\* Invocation l has a step to take, by the store and the invocation alone.
stepDue(l) == loops[l].rmw.pending \/ loops[l].pc \in RunningPcs

\* C16: whether a popup is there to receive the progress, completion and
\* error notifications or not, every step of an export is taken when it is
\* due and writes to the store, and moves on to the next request, as the
\* content script does that sends no notification at all.
C16_NotificationsDoNotSteer ==
    /\ [][\A l \in LoopIds : LoopStep(l) => unheardStep(l)]_vars
    /\ [](\A l \in LoopIds : stepDue(l) => ENABLED LoopStep(l))

\* C16 happens: an export of two claims has just been marked complete, its
\* last count update still to come, and no popup is open.
C16_Witness ==
    /\ exportComplete /\ exportJob # NoJob /\ exportJob.completedCount = 1
    /\ started = 1 /\ loops[1].rmw.pending
    /\ 1 \in DOMAIN claimKeys
    /\ popupView = "closed"

\* C17: the popup that opens shows a job whose driver loop is running as
\* plain progress, and offers the crash recovery only for a job no driver
\* loop is running for.
C17_RecoveryOnlyForDeadLoop ==
    [][\A timeSinceUpdate \in UpdateAges :
           PopupOpen(timeSinceUpdate)
               => /\ popupView' = "recovery" => \A l \in LoopIds : ~InLoop(l)
                  /\ (exportJob # NoJob /\ \E l \in LoopIds : InLoop(l))
                         => popupView' = "progress"]_vars

\* parseCsv(csvText) satisfies P for every file of csvTexts the first request
\* can bring.
whateverCsv(csvTexts, P(_, _)) ==
    started = 0 => \A csvText \in csvTexts : P(csvText, CsvParsed[csvText])

\* The cells of the selected column, top to bottom: rows too short to have
\* the column have none.
columnCells(csvText) ==
    LET rows == parseCsvRows(csvText)
        col == fileNumberIndex(rows[1])
        with == {r \in 2..Len(rows) : Len(rows[r]) >= col}
    IN  [n \in 1..Cardinality(with) |->
            rows[CHOOSE r \in with : Cardinality({x \in with : x < r}) = n - 1][col]]

\* The values of cells, the empty cell left out, each at its first
\* occurrence.
firstOccurrences(cells) ==
    LET first == {k \in DOMAIN cells :
                     cells[k] # <<>> /\ \A j \in 1..(k - 1) : cells[j] # cells[k]}
    IN  [n \in 1..Cardinality(first) |->
            cells[CHOOSE k \in first : Cardinality({x \in first : x < k}) = n - 1]]

identifiers(claims) == [k \in DOMAIN claims |-> claims[k].fileNumber]

\* C18: of a CSV with an identifier column, parse returns the values of that
\* column, each once, in the order of their first occurrence, whatever rows
\* repeat a value; the job is started with these identifiers.
C18_DistinctInFirstSeenOrder ==
    /\ whateverCsv(RowCsvTexts, LAMBDA csvText, parsed :
           parsed.ok =>
               /\ identifiers(parsed.claims) = firstOccurrences(columnCells(csvText))
               /\ \A i, j \in DOMAIN parsed.claims :
                      i # j => parsed.claims[i].fileNumber # parsed.claims[j].fileNumber)
    /\ exportJob # NoJob =>
           \A i, j \in DOMAIN exportJob.fileNumbers :
               i # j => exportJob.fileNumbers[i] # exportJob.fileNumbers[j]

\* C18 happens: a job for 7 and 8 was started from a file whose second data
\* row was passed over.
C18_Witness ==
    /\ exportJob # NoJob /\ exportJob.fileNumbers = << <<"7">>, <<"8">> >>
    /\ loops[1].claims = << [fileNumber |-> <<"7">>, rowIndex |-> 1],
                            [fileNumber |-> <<"8">>, rowIndex |-> 3] >>

\* The column the tiers give: a leftmost header of the best tier that any
\* header matches; 0 when no header matches a tier.
columnByTier(names) ==
    LET best == CHOOSE t \in 1..4 :
                    /\ \E k \in DOMAIN names : HeaderTier[names[k]] = t
                    /\ \A k \in DOMAIN names : HeaderTier[names[k]] >= t
    IN  IF best = 4 THEN 0
        ELSE CHOOSE k \in DOMAIN names :
                 /\ HeaderTier[names[k]] = best
                 /\ \A j \in 1..(k - 1) : HeaderTier[names[j]] # best

\* C19: the identifier column is chosen by tier, not by position: a tier-1
\* header wherever it stands, else a tier-2 header, else a tier-3 header,
\* and of several headers of that tier the leftmost; the job is started with
\* the cell below that header.
C19_ColumnByTier ==
    started = 0 =>
        \A names \in HeaderRows :
            LET parsed == CsvParsed[headerCsv(names)]
                rows == parseCsvRows(headerCsv(names))
            IN  IF columnByTier(names) = 0
                THEN ~parsed.ok /\ parsed.error = ErrMissingColumn
                ELSE /\ parsed.ok
                     /\ identifiers(parsed.claims) = <<rows[2][columnByTier(names)]>>
                     /\ rows[2][columnByTier(names)][1] = digitOf(columnByTier(names))

\* C19 happens: a job was started with the cell of the third column, the
\* header of tier 1, the first and second headers being of tiers 3 and 2.
C19_Witness ==
    /\ exportJob # NoJob
    /\ exportJob.fileNumbers = << <<"3", "3", "2", "1">> >>

substantial(lines) ==
    {k \in DOMAIN lines :
        \E c \in DOMAIN lines[k] : lines[k][c] \notin Whitespace \cup {",", "\""}}

\* C21: parse fails with "CSV file is empty or invalid" whenever fewer than
\* 2 rows remain once the rows whose every field is empty are dropped, and
\* with 2 or more such rows it never fails with that error; no job is
\* started from a file that failed so.
C21_EmptyOrInvalidBelowTwoRows ==
    /\ started = 0 =>
           \A lines \in BlankRows :
               LET parsed == CsvParsed[join(lines, <<"\n">>)]
               IN  /\ Len(parseCsvRows(join(lines, <<"\n">>)))
                          = Cardinality(substantial(lines))
                   /\ Cardinality(substantial(lines)) < 2
                          <=> (~parsed.ok /\ parsed.error = ErrEmptyOrInvalid)
    /\ exportError = ErrEmptyOrInvalid => exportJob = NoJob

\* C21 happens: a file was refused as empty or invalid, and another with
\* two rows left was refused for its header.
C21_Witness ==
    /\ exportError = ErrEmptyOrInvalid
    /\ CsvParsed[<<",", "\n", "7", "\n", "7">>].error = ErrMissingColumn

\* The header has one of the exclusion substrings in it.
excluded(h) == \E ex \in excludePatterns : includes(toLowerCase(h), ex)

\* C22: when no header matches any of the three tiers parse fails with
\* "Could not find claim/file number column" and no job is started; a
\* header with an exclusion substring in it is never the one the third tier
\* selects, whatever its position.
C22_MissingColumnAndExclusions ==
    /\ started = 0 =>
           \A names \in ExcludedHeaderRows :
               LET parsed == CsvParsed[excludedCsv(names)]
                   unmatched(h) ==
                       ~isExactName(h) /\ ~isNumberLike(h) /\ ~isLooseName(h)
               IN  /\ (\A k \in DOMAIN names : unmatched(names[k]))
                          => ~parsed.ok /\ parsed.error = ErrMissingColumn
                   /\ (\A k \in DOMAIN names :
                           excluded(names[k]) \/ names[k] = <<"i","d">>)
                          => ~parsed.ok /\ parsed.error = ErrMissingColumn
                   /\ parsed.ok =>
                          \E k \in DOMAIN names :
                              /\ identifiers(parsed.claims) = << <<digitOf(k)>> >>
                              /\ ~excluded(names[k])
    /\ exportError = ErrMissingColumn => exportJob = NoJob

\* C22 happens: a file was refused for its header; headers with exclusion
\* substrings alone are refused, and beside "my claim" they are passed
\* over.
C22_Witness ==
    /\ exportError = ErrMissingColumn
    /\ CsvParsed[excludedCsv(<< <<"P","r","o","f","i","l","e">>,
                                <<"f","i","l","e","d">> >>)].error = ErrMissingColumn
    /\ identifiers(CsvParsed[excludedCsv(<< <<"f","i","l","e","d">>,
                                            <<"m","y"," ","c","l","a","i","m">> >>)].claims)
           = << <<"2">> >>

\* The fields of a record that fetchClaimDetails fills from the platform's
\* answers: the claim and its details, the contacts and personnel, and the
\* sections of the fan-out.
platformFields ==
    {"claimId", "claimUuid", "claimDetails", "fullClaimData", "contacts",
     "personnel", "phases"} \cup UNION {sectionsOf(fetch) : fetch \in FanOut}

\* C23: the extension's storage holds only UI preferences and processing
\* state: no key of it holds claim data or personal information fetched
\* from the platform.
C23_NoClaimDataStored ==
    \A index \in DOMAIN claimKeys :
        DOMAIN claimKeys[index] \cap platformFields = {}

\* C25: from the start of a job until start over or a new export, every
\* update of the persisted job changes completedCount only: fileNumbers,
\* total, testMode and startedAt keep the values written at the start,
\* also when the page is closed and the export resumed.
C25_UpdatesChangeOnlyCount ==
    [][(exportJob # NoJob /\ exportJob' # NoJob /\ started' = started)
           => exportJob' = [exportJob EXCEPT
                                !.completedCount = exportJob'.completedCount]]_vars

\* C26: the first fetch of an export is issued by the callback of the job
\* write, with the fresh job (completedCount 0, the identifiers of the CSV)
\* in the store and no record yet; every invocation fetches from its first
\* index upwards, each fetch for the index after the one before, a resumed
\* one starting at the count it read.
C26_JobWrittenThenFetchesInOrder ==
    [][\A l \in LoopIds : \A i \in 0..Len(loops'[l].claims) :
           FetchIssued(l, i) =>
               \/ /\ loops[l].pc = "saveJob"
                  /\ i = 0
                  /\ exportJob # NoJob
                  /\ exportJob.completedCount = 0
                  /\ exportJob.fileNumbers = identifiers(loops'[l].claims)
                  /\ claimKeys = <<>>
               \/ /\ loops[l].pc = "getJob"
                  /\ i = loops[l].got.job.completedCount
               \/ /\ loops[l].pc = "sleep"
                  /\ i = loops[l].i + 1
                  /\ 0..loops[l].i \subseteq DOMAIN claimKeys]_vars

\* C26 happens: an export started at index 0 is fetching index 2, the
\* records of indices 0 and 1 stored and counted.
C26_Witness ==
    \E l \in LoopIds :
        /\ loops[l].pc = "fetch" /\ loops[l].startFrom = 0 /\ loops[l].i = 2
        /\ DOMAIN claimKeys = {0, 1}
        /\ exportJob # NoJob /\ exportJob.completedCount = 2

\* The requests of invocation l that have been issued and not answered.
requestsInFlight(l) ==
    IF loops[l].pc = "fetch"
    THEN Cardinality(loops[l].call.inFlight) + Cardinality(loops[l].call.listings)
    ELSE 0

\* C24: rate limiting as documented: within one claim the endpoint requests
\* follow one another with a delay between them, so no two requests of the
\* claim are in flight at the same time.
C24_OneRequestAtATime == \A l \in LoopIds : requestsInFlight(l) <= 1

\* The claims a search can find and the bodies a details request can bring.
foundClaims ==
    {search.value.items[1] :
        search \in {r \in SearchResponses :
                        r.status = "fulfilled" /\ r.value.items # <<>>}}

receivedDetails ==
    {fullDetails.value :
        fullDetails \in {r \in DetailsResponses : r.status = "fulfilled"}}

\* C27: within one claim the phases run in order 1, 2, 3: the details
\* request is issued only by the step that receives a search result with a
\* claim in it, the requests of the fan-out only by the step that receives
\* the details, and when the search or the details request fails the call
\* ends with the error-tagged stub and no further request.
C27_PhasesInOrder ==
    /\ [][\A l \in LoopIds :
             LET before == loops[l].call
                 after == loops'[l].call
             IN  /\ (after.pc = "details" /\ before.pc # "details")
                        => /\ loops[l].pc = "fetch" /\ before.pc = "search"
                           /\ after.claimInfo \in foundClaims
                           /\ after.inFlight = {"details"} /\ after.listings = {}
                 /\ (after.pc = "fanOut" /\ before.pc # "fanOut")
                        => /\ loops[l].pc = "fetch" /\ before.pc = "details"
                           /\ after.fullDetails \in receivedDetails
                           /\ after.claimInfo = before.claimInfo
                 /\ after.inFlight \ before.inFlight # {} => after.pc # before.pc
                 /\ after.listings \ before.listings # {} => after.pc = "fanOut"
                 /\ (loops[l].pc = "fetch" /\ before.pc \in {"search", "details"}
                         /\ after.pc \notin {"details", "fanOut"})
                        => /\ loops'[l].pc = "saveClaim" /\ after = NewCall
                           /\ claimKeys'[loops[l].i].error]_vars
    /\ [](\A l \in LoopIds :
             /\ loops[l].pc # "fetch" => loops[l].call = NewCall
             /\ loops[l].call.pc = "search"
                    => loops[l].call.inFlight = {"search"} /\ loops[l].call.listings = {}
             /\ loops[l].call.pc = "details"
                    => loops[l].call.inFlight = {"details"} /\ loops[l].call.listings = {}
             /\ loops[l].call.pc = "fanOut"
                    => loops[l].call.inFlight \subseteq FanOut \ {"files"})

\* C27 happens: the fan-out of a claim is under way, the notes answered and
\* a folder listing out.
C27_Witness ==
    \E l \in LoopIds :
        /\ loops[l].pc = "fetch" /\ loops[l].call.pc = "fanOut"
        /\ loops[l].call.settled["notes"] # Pending
        /\ loops[l].call.listings # {}

\* The promises of step 3 that have not settled.
pendingOf(call) == {fetch \in FanOut : call.settled[fetch] = Pending}

\* C28: the eight requests of step 3 are issued together, before any is
\* awaited; the record is returned by the step in which the last of the
\* eight settles and not before, whether the others were fulfilled or
\* rejected; a rejection leaves the others in flight and their results,
\* once settled, as they are.
C28_JoinAfterAllSettled ==
    /\ [][\A l \in LoopIds :
             LET before == loops[l].call
                 after == loops'[l].call
             IN  /\ (after.pc = "fanOut" /\ before.pc # "fanOut")
                        => /\ after.inFlight = FanOut \ {"files"}
                           /\ Cardinality(after.listings) = 1
                           /\ pendingOf(after) = FanOut
                 /\ (before.pc = "fanOut" /\ after.pc = "fanOut")
                        => /\ pendingOf(after) \subseteq pendingOf(before)
                           /\ \A fetch \in FanOut \ pendingOf(before) :
                                  after.settled[fetch] = before.settled[fetch]
                 /\ (before.pc = "fanOut" /\ after.pc # "fanOut")
                        => /\ Cardinality(pendingOf(before)) = 1
                           /\ loops'[l].pc = "saveClaim"
                           /\ "claimId" \in DOMAIN claimKeys'[loops[l].i]]_vars
    /\ [](\A l \in LoopIds :
             loops[l].call.pc = "fanOut"
                 => /\ pendingOf(loops[l].call) \ {"files"} = loops[l].call.inFlight
                    /\ "files" \in pendingOf(loops[l].call)
                           <=> (loops[l].call.listings # {} \/ loops[l].call.paused)
                    /\ pendingOf(loops[l].call) # {})

\* C28 happens: one request of step 3 was rejected and the join waits for
\* the last of the other seven.
C28_Witness ==
    \E l \in LoopIds :
        /\ loops[l].pc = "fetch" /\ loops[l].call.pc = "fanOut"
        /\ loops[l].call.settled["insurance"] = Rejected
        /\ pendingOf(loops[l].call) = {"activity"}

\* C29: the file walk ends on every folder tree, also one in which a folder
\* lists itself, once its listings are answered; no folder listing is
\* requested at a depth greater than 5, the root listing being at depth 0.
C29_WalkEndsWithinDepth ==
    /\ [](\A l \in LoopIds :
             /\ \A request \in loops[l].call.listings : request.depth <= 5
             /\ loops[l].call.pc = "fanOut"
                    => \A k \in DOMAIN loops[l].call.stack :
                           loops[l].call.stack[k].depth = k - 1 /\ k - 1 <= 5)
    /\ \A l \in LoopIds :
           (loops[l].pc = "fetch" /\ loops[l].call.pc = "fanOut")
               ~> (loops[l].pc # "fetch")

\* C29 happens: folder d1 has listed itself five times; its listing at
\* depth 5 is out.
C29_Witness ==
    \E l \in LoopIds :
        /\ loops[l].pc = "fetch" /\ loops[l].call.pc = "fanOut"
        /\ loops[l].call.listings = {[folderKey |-> "d1", depth |-> 5]}
        /\ \A k \in 2..6 : loops[l].call.stack[k].folderKey = "d1"

\* C30: during the file walk of a claim at most one folder listing is out
\* at any time.  The listing of a folder is requested only by the step
\* that ends the pause of its parent, the parent's own listing answered
\* and no other listing out; it is then the innermost call, with only its
\* ancestors on the stack, so a sibling's descent has returned before the
\* next one begins.
C30_OneListingAtATime ==
    /\ [](\A l \in LoopIds :
             /\ Cardinality(loops[l].call.listings) <= 1
             /\ (loops[l].call.pc = "fanOut" /\ loops[l].call.listings # {})
                    => /\ ~loops[l].call.paused
                       /\ loops[l].call.listings
                              = {listingRequest(Top(loops[l].call.stack))})
    /\ [][\A l \in LoopIds :
             LET before == loops[l].call
                 after == loops'[l].call
             IN  \A request \in after.listings :
                     (request \notin before.listings /\ request.depth > 0)
                         => /\ before.pc = "fanOut" /\ before.paused
                            /\ before.listings = {}
                            /\ Len(before.stack) = request.depth
                            /\ Head(Top(before.stack).rest).key = request.folderKey
                            /\ Len(after.stack) = request.depth + 1
                            /\ Front(after.stack) = before.stack]_vars

\* C30 happens: the listing of the second folder of the root is out, the
\* file of the first folder collected.
C30_Witness ==
    \E l \in LoopIds :
        /\ loops[l].pc = "fetch" /\ loops[l].call.pc = "fanOut"
        /\ loops[l].call.listings = {[folderKey |-> "d2", depth |-> 1]}
        /\ loops[l].call.stack[1].allFiles = <<SomeFile("f1")>>

\* C31: a pacing delay is taken after each claim that is not the last one,
\* before the next claim's fetch begins: the record write's callback of such
\* a claim starts the delay and the next fetch is issued by the step that
\* ends it.  After the claim with the last index the same callback marks the
\* job complete without a delay, on a fresh run as on a resumed run.
C31_PacingBetweenClaimsOnly ==
    [][\A l \in LoopIds :
        /\ (loops[l].pc = "saveClaim" /\ loops'[l].pc \notin {"saveClaim", "killed"})
               => IF loops[l].i < Len(loops[l].claims) - 1
                  THEN /\ loops'[l].pc = "sleep" /\ loops'[l].i = loops[l].i
                       /\ exportComplete' = exportComplete
                  ELSE /\ loops'[l].pc = "idle"
                       /\ exportComplete' /\ exportProgress' = NoProgress
        /\ (loops'[l].pc = "sleep" /\ loops[l].pc # "sleep")
               => /\ loops[l].pc = "saveClaim"
                  /\ loops[l].i < Len(loops[l].claims) - 1
        /\ \A i \in 1..Len(loops'[l].claims) :
               (FetchIssued(l, i) /\ i > loops'[l].startFrom)
                   => loops[l].pc = "sleep" /\ loops[l].i = i - 1]_vars

\* C31 happens: a resumed invocation, re-entered at index 1 of three claims,
\* is in the pacing delay after that claim.
C31_Witness ==
    \E l, dead \in LoopIds :
        /\ loops[dead].pc = "killed"
        /\ loops[l].pc = "sleep" /\ loops[l].startFrom = 1 /\ loops[l].i = 1
        /\ Len(loops[l].claims) = 3
        /\ ~exportComplete

\* The decoded records the assembler holds: the batch read last.
recordsHeld ==
    IF "batchData" \in DOMAIN download THEN DOMAIN download.batchData ELSE {}

\* C32: during assembly at most one batch, at most 100, of decoded claim
\* records is held at any time: the records held are those of the batch
\* being read or stringified and of no earlier batch, and none is held
\* once the last batch is done.
C32_OneBatchHeld ==
    /\ Cardinality(recordsHeld) <= LOAD_BATCH_SIZE
    /\ download.pc \in {"batch", "breathe"}
           => recordsHeld \subseteq
                  download.batchStart
                      ..(Min(download.batchStart + LOAD_BATCH_SIZE, download.count) - 1)
    /\ download.pc \notin {"batch", "breathe"} => recordsHeld = {}

\* C32 happens: of 201 saved claims the second batch of 100 is held, the
\* first batch stringified and released.
C32_Witness ==
    /\ download.pc = "batch"
    /\ download.count = 2 * LOAD_BATCH_SIZE + 1
    /\ download.batchStart = LOAD_BATCH_SIZE
    /\ Cardinality(recordsHeld) = LOAD_BATCH_SIZE
    /\ Len(download.blobParts) = 2

\* The document without its two timestamp fields.
untimed(text) ==
    [text EXCEPT ![Len(text)] =
        [name \in (DOMAIN @) \ {"exportDate", "date"} |-> @[name]]]

\* The document of the store as it is, every key below the job's
\* completedCount being there: header, the records of these keys with a
\* separator between two, footer.
storeDocument(isPartial, now) ==
    <<Header>>
        \o [m \in 1..(2 * exportJob.completedCount - 1) |->
               IF m % 2 = 1 THEN claimKeys[(m - 1) \div 2] ELSE Separator]
        \o <<footer(exportJob.completedCount, exportJob.total, isPartial, now)>>

\* C33: on an unchanged store the saved document is, apart from exportDate
\* and date, a function of the store and the isPartial flag: whenever the
\* assembler runs, and however often, it is the document of the store with
\* the two fields set to the time of the run, so two runs with the same
\* flag differ in these two fields and nowhere else.
C33_SameDocumentButTimestamps ==
    download.pc = "saved" =>
        /\ untimed(concat(download.blobParts))
               = untimed(storeDocument(download.isPartial, 0))
        /\ documentInfo(download.blobParts).exportDate = download.now
        /\ documentInfo(download.blobParts).date = download.now

\* C33 happens: the popup has saved a second partial file of the same store,
\* 101 claims in two batches, at a later time than the first.
C33_Witness ==
    /\ download.pc = "saved"
    /\ download.now = 2
    /\ download.isPartial
    /\ download.count = LOAD_BATCH_SIZE + 1
    /\ documentInfo(download.blobParts).date = 2

\* C34: the assembler only reads: no step of a download, full or partial,
\* saved or refused for want of saved claims, changes the job, a per-claim
\* key or any other key of the store.
C34_AssemblerOnlyReads ==
    [][download' # download
           => /\ exportJob' = exportJob
              /\ claimKeys' = claimKeys
              /\ exportComplete' = exportComplete
              /\ exportProgress' = exportProgress
              /\ exportError' = exportError]_vars

\* C34 happens: a partial file of one claim has been saved and the store
\* still holds the job, the claim's record and the stale progress entry.
C34_Witness ==
    /\ download.pc = "saved" /\ download.isPartial /\ download.count = 1
    /\ exportJob # NoJob /\ exportJob.completedCount = 1 /\ exportJob.total = 3
    /\ 0 \in DOMAIN claimKeys
    /\ exportProgress # NoProgress
    /\ ~exportComplete

\* C35: whenever exportComplete is true in the store, the persisted job has
\* completedCount = total and a record is stored for every index
\* 0..total-1, so that a download started then covers the whole job.
C35_CompleteMeansAllCounted ==
    exportComplete =>
        /\ exportJob # NoJob
        /\ exportJob.completedCount = exportJob.total
        /\ Indices(exportJob.total) \subseteq DOMAIN claimKeys

\* C36: for every index i below the persisted completedCount, the record
\* stored at key i was produced for the i-th identifier of the current job:
\* the job has an i-th identifier and it is the record's fileNumber.
C36_RecordsBelongToJob ==
    exportJob # NoJob =>
        \A i \in Indices(exportJob.completedCount) \cap DOMAIN claimKeys :
            /\ i + 1 \in DOMAIN exportJob.fileNumbers
            /\ claimKeys[i].fileNumber = exportJob.fileNumbers[i + 1]

\* Invocation l was started by the export of a job that is not the one in
\* the store any more: the job written by the l-th invocation has
\* startedAt = l.
ofEarlierJob(l) == exportJob = NoJob \/ exportJob.startedAt # l

\* C37: after a job is removed by start over or replaced by a new export, a
\* driver loop started for it writes no per-claim key and no job: none of
\* its steps changes a per-claim key, and its pending count update neither
\* re-creates nor overwrites the job in the store.
C37_EarlierLoopWritesNothing ==
    [][\A l \in LoopIds :
           (stepDue(l) /\ ofEarlierJob(l) /\ loops'[l] # loops[l])
               => claimKeys' = claimKeys /\ exportJob' = exportJob]_vars

\* C38: in every document the assembler produces, the number of entries of
\* the claims array equals totalClaims of exportInfo: no record of an index
\* below completedCount was missing from the store when it was assembled.
C38_EntriesEqualTotalClaims ==
    download.pc = "saved" =>
        Len(documentClaims(download.blobParts))
            = documentInfo(download.blobParts).totalClaims

\* The keys of files, in order.
keysOf(files) == [k \in DOMAIN files |-> files[k].key]

\* The keys of the files the calls on the stack have collected, in the
\* order of the walk.
collected(stack) == concat([k \in DOMAIN stack |-> keysOf(stack[k].allFiles)])

isPrefix(s, t) == Len(s) <= Len(t) /\ SubSeq(t, 1, Len(s)) = s

\* The keys of the files the walk of invocation l has after a step: those
\* collected while it goes on, those it returned when it has ended, those
\* of the record when the record was written in the step.
filesAfter(pc, call, keys, i) ==
    IF pc = "saveClaim"
    THEN IF "files" \in DOMAIN keys[i] THEN keysOf(keys[i].files) ELSE <<>>
    ELSE IF call.settled["files"] # Pending
    THEN keysOf(call.settled["files"].value.items)
    ELSE collected(call.stack)

\* The keys of the files of a listing that stand before the first folder
\* the walk descends into.
RECURSIVE filesBefore(_)
filesBefore(items) ==
    IF items = <<>> \/ descends(Head(items)) THEN <<>>
    ELSE (IF ~Head(items).folder /\ Head(items).filename # ""
          THEN <<Head(items).key>> ELSE <<>>) \o filesBefore(Tail(items))

\* The items of a listing from the first folder the walk descends into.
RECURSIVE fromNextFolder(_)
fromNextFolder(items) ==
    IF items = <<>> \/ descends(Head(items)) THEN items
    ELSE fromNextFolder(Tail(items))

\* C39: a failed listing request of a sub-folder loses the files of that
\* sub-folder's subtree only: the files collected before are kept, in
\* order, the files that follow the folder in its parent's listing are
\* collected, and the walk pauses before the next sibling folder.  A
\* failed root listing yields no file.
\* In neither case does fetchClaimDetails throw: the record written has the
\* claim's data and no error field.
C39_FailedListingLosesSubtreeOnly ==
    [][\A l \in LoopIds : \A request \in loops[l].call.listings :
           ListingAnswered(l, request, Rejected) =>
               LET before == loops[l].call
                   after == loops'[l].call
                   has == filesAfter(loops'[l].pc, after, claimKeys', loops[l].i)
               IN  /\ loops'[l].pc \in {"fetch", "saveClaim"}
                   /\ loops'[l].pc = "saveClaim"
                          => /\ "claimId" \in DOMAIN claimKeys'[loops[l].i]
                             /\ "error" \notin DOMAIN claimKeys'[loops[l].i]
                   /\ request.depth = 0 => has = <<>>
                   /\ request.depth > 0
                          => LET parent == before.stack[Len(before.stack) - 1]
                                 siblings == fromNextFolder(Tail(parent.rest))
                             IN  /\ isPrefix(collected(before.stack)
                                              \o filesBefore(Tail(parent.rest)), has)
                                 /\ siblings # <<>>
                                        => /\ loops'[l].pc = "fetch"
                                           /\ after.paused
                                           /\ Len(after.stack) = Len(before.stack) - 1
                                           /\ Top(after.stack).rest = siblings]_vars

\* C39 happens: the record of a claim whose root folder lists a file, two
\* folders and a file is stored; the listing of one folder failed, and the
\* record has the file collected before, the file of the other folder and
\* the file after, and no error field.
C39_Witness ==
    /\ 0 \in DOMAIN claimKeys
    /\ "files" \in DOMAIN claimKeys[0]
    /\ keysOf(claimKeys[0].files) = <<"f0", "f2", "f1">>
    /\ "error" \notin DOMAIN claimKeys[0]

\* The job written by a processCsv step in test mode: one identifier, the
\* first one of the CSV.
testModeJobIsFirstOfCsv ==
    \A csvText \in CsvTexts \cup {CsvThree, CsvEight} :
        (/\ popupView = "input"
         /\ CsvParsed[csvText].ok
         /\ CsvParsed[csvText].claims # <<>>
         /\ processCsvAndFetchData(csvText, TRUE, "progress"))
            => /\ exportJob'.total = 1
               /\ exportJob'.fileNumbers
                      = <<CsvParsed[csvText].claims[1].fileNumber>>

\* C40: in every reachable state with a persisted job, total is the number
\* of stored identifiers, total is at least 1 and completedCount lies
\* between 0 and total; a job in test mode has total 1, and the identifier
\* a test-mode export stores is the first one of its CSV.
C40_JobCountsInRange ==
    /\ [](exportJob # NoJob =>
              /\ exportJob.total = Len(exportJob.fileNumbers)
              /\ exportJob.total >= 1
              /\ 0 <= exportJob.completedCount
              /\ exportJob.completedCount <= exportJob.total
              /\ exportJob.testMode => exportJob.total = 1)
    /\ [][testModeJobIsFirstOfCsv]_vars

====
